---- MODULE Spec2Model ----
(***************************************************************************)
(* Model of the crypto-analysis-system streaming core:                     *)
(*   PerformanceTracker  (services/performance/performance_tracker.py)     *)
(*   SignalFilter        (services/signals/signal_filter.py)               *)
(*   SignalGenerator     (services/signals/signal_generator.py)            *)
(*   RealtimeAnalyzer    (services/analysis/realtime_analyzer.py)          *)
(*   CryptoPriceCollector(data_collectors/price_collector.py)              *)
(*                                                                         *)
(* Conventions.                                                            *)
(*  - Python floats that the code compares with thresholds are exact       *)
(*    rationals <<num, den>> with den > 0 (return_pct, strength, rsi).     *)
(*  - Optional[...] fields are <<>> (None) or <<v>>; an optional rational  *)
(*    is <<>> or <<num, den>>.                                             *)
(*  - datetime values are integer seconds; `now` is datetime.now().        *)
(*  - uuid.uuid4() is the fresh counter next_uuid.                         *)
(*  - A dict keyed by signal id is the sequence of its values in insertion *)
(*    order (Python dicts iterate in insertion order); each value carries  *)
(*    its key in the field signal_id.                                      *)
(***************************************************************************)
EXTENDS Integers, Sequences, FiniteSets, TLC

VARIABLES
    now,                \* wall clock read by datetime.now()
    active_signals,     \* PerformanceTracker.active_signals : dict, as its list of values
    completed_signals,  \* PerformanceTracker.completed_signals : list of SignalResult
    n_adds,             \* how many times add_signal was called with each id
    config,             \* SignalFilter.config : FilterConfig
    last_signal_time,   \* SignalFilter.last_signal_time : (indicator, type) -> timestamp
    recent_signals,     \* SignalFilter.recent_signals : list of Signal
    accepted,           \* history: <<indicator, type, timestamp>> of the signals filter_signal accepted
    recorded,           \* history: the signals passed to update_recent_signals, in order
    data_buffer,        \* RealtimeAnalyzer.data_buffer : the rows of the frame, oldest first
    indicators,         \* RealtimeAnalyzer.indicators : {} or {rsi, macd, macd_signal}
    analyzer_active_signals, \* RealtimeAnalyzer.active_signals : signal id -> Signal
    signal_subscribers, \* RealtimeAnalyzer.signal_subscribers : 'ALL' or indicator -> callbacks
    next_uuid,          \* the value the next uuid.uuid4() returns
    n_ticks,            \* history: calls of handle_price_update so far
    n_raised,           \* history: how many of them raised
    appended,           \* history: the rows concatenated to data_buffer, in order
    delivered,          \* history: the calls of signal subscribers, in order
    running,            \* RealtimeAnalyzer.running
    collector_running,  \* CryptoPriceCollector.running
    ws,                 \* CryptoPriceCollector.ws : None or the connection
    collector_subscribers, \* CryptoPriceCollector.subscribers : symbol key -> callbacks
    connections,        \* the websocket connections made so far : "open" or "closed"
    listeners,          \* the _listen_to_stream tasks created so far : where each one is
    start_call,         \* the call of RealtimeAnalyzer.start : where it is
    stop_call,          \* the call of RealtimeAnalyzer.stop : where it is
    message,            \* _listen_to_stream : None, or <<the ticker ws.recv() returned last>>
    snapshot,           \* the frame row a caller passes to generate_signals; None before
    generated_signals,  \* None, or <<the list that call of generate_signals returned>>
    metrics,            \* None, or <<the last call of get_performance_metrics and its result>>
    technical_data,     \* TechnicalAnalyzer.data['close'] : the close series; None before
    rsi_series,         \* None, or <<the series that call of calculate_rsi returned>>
    bands               \* None, or <<the series that call of calculate_bollinger_bands returned>>

tracker_vars == <<active_signals, completed_signals, n_adds>>
filter_vars == <<config, last_signal_time, recent_signals, accepted, recorded>>
analyzer_vars == <<data_buffer, indicators, analyzer_active_signals, signal_subscribers,
                   next_uuid, n_ticks, n_raised, appended, delivered>>
stream_vars == <<running, collector_running, ws, collector_subscribers, connections,
                 listeners, start_call, stop_call, message>>
generator_vars == <<snapshot, generated_signals>>
call_vars == <<metrics, technical_data, rsi_series, bands>>
vars == <<now, active_signals, completed_signals, n_adds,
          config, last_signal_time, recent_signals, accepted, recorded,
          data_buffer, indicators, analyzer_active_signals, signal_subscribers,
          next_uuid, n_ticks, n_raised, appended, delivered,
          running, collector_running, ws, collector_subscribers, connections,
          listeners, start_call, stop_call, message, snapshot, generated_signals, metrics,
          technical_data, rsi_series, bands>>

----------------------------------------------------------------------------
(* Bounds of the model *)

MaxAdds == 2         \* add_signal calls in one behaviour of SpecTracker

SignalIds == {1, 2}             \* signal ids callers pass to add_signal directly
TrackerTimes == {0, 86400}      \* instants the clock shows in SpecTracker
TrackerTypes == {"BUY", "SELL"}
TrackerIndicators == {"RSI"}
EntryPrices == {100}
UpdatePrices == {98, 100, 105}
StopTakeLevels == {<< <<>>, <<>> >>, << <<98>>, <<105>> >>}

----------------------------------------------------------------------------
(* Rationals <<num, den>>, den > 0 *)

RLe(a, b) == a[1] * b[2] <= b[1] * a[2]
RGe(a, b) == RLe(b, a)
RLt(a, b) == ~RLe(b, a)
REq(a, b) == a[1] * b[2] = b[1] * a[2]

None == <<>>
Truthy(opt) == opt # <<>> /\ opt[1] # 0    \* Python truth value of an Optional[float]

----------------------------------------------------------------------------
(* dict keyed by signal_id, as the sequence of its values in insertion order *)

Keys(d) == {d[i].signal_id : i \in DOMAIN d}
Has(d, k) == k \in Keys(d)
Get(d, k) == d[CHOOSE i \in DOMAIN d : d[i].signal_id = k]
\* d[k] = v : a new key goes last, an existing key keeps its place
DictSet(d, k, v) ==
    IF Has(d, k) THEN [i \in DOMAIN d |-> IF d[i].signal_id = k THEN v ELSE d[i]]
    ELSE Append(d, v)
\* del d[k]
DictDel(d, k) == SelectSeq(d, LAMBDA x : x.signal_id # k)

----------------------------------------------------------------------------
(* PerformanceTracker *)

signal_timeout == 86400                 \* timedelta(hours=24), in seconds
min_profit_threshold == <<1, 2>>        \* 0.5
max_loss_threshold == <<-1, 1>>         \* -1.0

SignalResult(id, type, indicator, entry_price, entry_time, stop_loss, take_profit) ==
    [signal_id |-> id, type |-> type, indicator |-> indicator,
     entry_price |-> entry_price, entry_time |-> entry_time,
     exit_price |-> None, exit_time |-> None, outcome |-> "PENDING",
     return_pct |-> None, stop_loss |-> stop_loss, take_profit |-> take_profit]

\* mutant: the ratio, not the percentage
_calculate_return_unscaled(signal_type, entry_price, current_price) ==
    IF signal_type = "BUY"
    THEN <<current_price - entry_price, entry_price>>
    ELSE <<entry_price - current_price, entry_price>>

\* mutant: the BUY formula for both directions
_calculate_return_ignores_type(signal_type, entry_price, current_price) ==
    <<(current_price - entry_price) * 100, entry_price>>

_calculate_return(signal_type, entry_price, current_price) ==
    IF signal_type = "BUY"
    THEN <<(current_price - entry_price) * 100, entry_price>>
    ELSE <<(entry_price - current_price) * 100, entry_price>>

\* mutant: no timeout
_should_complete_signal_no_timeout(signal, current_price, return_pct, t) ==
    IF Truthy(signal.stop_loss) /\ current_price <= signal.stop_loss[1] THEN TRUE
    ELSE IF Truthy(signal.take_profit) /\ current_price >= signal.take_profit[1] THEN TRUE
    ELSE IF RGe(return_pct, min_profit_threshold) \/ RLe(return_pct, max_loss_threshold) THEN TRUE
    ELSE FALSE

_should_complete_signal(signal, current_price, return_pct, t) ==
    IF Truthy(signal.stop_loss) /\ current_price <= signal.stop_loss[1] THEN TRUE
    ELSE IF Truthy(signal.take_profit) /\ current_price >= signal.take_profit[1] THEN TRUE
    ELSE IF t - signal.entry_time >= signal_timeout THEN TRUE
    ELSE IF RGe(return_pct, min_profit_threshold) \/ RLe(return_pct, max_loss_threshold) THEN TRUE
    ELSE FALSE

\* add_signal: active_signals after the call (the return value is its new entry)
add_signal(act, signal_id, signal_type, indicator, entry_price, stop_loss, take_profit, t) ==
    DictSet(act, signal_id,
            SignalResult(signal_id, signal_type, indicator, entry_price, t, stop_loss, take_profit))

\* the outcome complete_signal leaves on the signal (lines 96-100)
CompletedOutcome(signal, return_pct) ==
    IF RGe(return_pct, min_profit_threshold) THEN "SUCCESS"
    ELSE IF RLe(return_pct, max_loss_threshold) THEN "FAILURE"
    ELSE signal.outcome

\* mutant: the completed signal is not deleted from active_signals
complete_signal_keeps_active(act, comp, signal_id, exit_price, t) ==
    IF ~Has(act, signal_id)
    THEN [active |-> act, completed |-> comp, result |-> None]
    ELSE LET signal == Get(act, signal_id)
             ret == _calculate_return(signal.type, signal.entry_price, exit_price)
             done == [signal EXCEPT !.exit_price = <<exit_price>>,
                                    !.exit_time = <<t>>,
                                    !.return_pct = ret,
                                    !.outcome = CompletedOutcome(signal, ret)]
         IN [active |-> act, completed |-> Append(comp, done), result |-> <<done>>]

\* complete_signal: [active, completed, result]; result is <<>> for None
complete_signal(act, comp, signal_id, exit_price, t) ==
    IF ~Has(act, signal_id)
    THEN [active |-> act, completed |-> comp, result |-> None]
    ELSE LET signal == Get(act, signal_id)
             ret == _calculate_return(signal.type, signal.entry_price, exit_price)
             done == [signal EXCEPT !.exit_price = <<exit_price>>,
                                    !.exit_time = <<t>>,
                                    !.return_pct = ret,
                                    !.outcome = CompletedOutcome(signal, ret)]
         IN [active |-> DictDel(act, signal_id),
             completed |-> Append(comp, done),
             result |-> <<done>>]

\* mutant: an unknown id is answered with a fresh record instead of None
update_signal_answers_unknown(act, comp, signal_id, current_price, t) ==
    IF ~Has(act, signal_id)
    THEN [active |-> act, completed |-> comp,
          result |-> <<SignalResult(signal_id, "BUY", "RSI", current_price, t, None, None)>>]
    ELSE LET signal == Get(act, signal_id)
             return_pct == _calculate_return(signal.type, signal.entry_price, current_price)
         IN IF _should_complete_signal(signal, current_price, return_pct, t)
            THEN complete_signal(act, comp, signal_id, current_price, t)
            ELSE [active |-> act, completed |-> comp, result |-> <<signal>>]

\* mutant: every update of a known id completes it
update_signal_always_completes(act, comp, signal_id, current_price, t) ==
    complete_signal(act, comp, signal_id, current_price, t)

\* update_signal: [active, completed, result]
update_signal(act, comp, signal_id, current_price, t) ==
    IF ~Has(act, signal_id)
    THEN [active |-> act, completed |-> comp, result |-> None]
    ELSE LET signal == Get(act, signal_id)
             return_pct == _calculate_return(signal.type, signal.entry_price, current_price)
         IN IF _should_complete_signal(signal, current_price, return_pct, t)
            THEN complete_signal(act, comp, signal_id, current_price, t)
            ELSE [active |-> act, completed |-> comp, result |-> <<signal>>]

\* the loop of cleanup_expired_signals over list(active_signals.items())
RECURSIVE ExpireFrom(_, _, _, _)
ExpireFrom(items, act, comp, t) ==
    IF items = <<>> THEN [active |-> act, completed |-> comp, result |-> <<>>]
    ELSE LET signal == Head(items)
         IN IF t - signal.entry_time >= signal_timeout
            THEN LET expired == [signal EXCEPT !.outcome = "EXPIRED"]
                     rest == ExpireFrom(Tail(items), DictDel(act, signal.signal_id),
                                        Append(comp, expired), t)
                 IN [rest EXCEPT !.result = <<expired>> \o rest.result]
            ELSE ExpireFrom(Tail(items), act, comp, t)

\* mutant: nothing expires
cleanup_expired_signals_none(act, comp, t) ==
    [active |-> act, completed |-> comp, result |-> <<>>]

cleanup_expired_signals(act, comp, t) == ExpireFrom(act, act, comp, t)

\* the fields of PerformanceMetrics that count signals; avg_return,
\* avg_holding_time, profit_factor and the accuracy maps are computed from the
\* same list and change nothing
PerformanceMetrics(total_signals, success_count, failure_count, win_rate) ==
    [total_signals |-> total_signals, success_count |-> success_count,
     failure_count |-> failure_count, win_rate |-> win_rate]

\* signals, after `if timeframe:` (None and timedelta(0) are false)
WithinTimeframe(comp, timeframe, t) ==
    IF Truthy(timeframe)
    THEN SelectSeq(comp, LAMBDA s : s.entry_time >= t - timeframe[1])
    ELSE comp

CountOutcome(signals, outcome) == Len(SelectSeq(signals, LAMBDA s : s.outcome = outcome))

\* mutant: the timeframe filter is applied to completed_signals itself
get_performance_metrics_prunes(comp, timeframe, t) ==
    LET signals == WithinTimeframe(comp, timeframe, t)
        success_count == CountOutcome(signals, "SUCCESS")
        failure_count == CountOutcome(signals, "FAILURE")
        total_completed == success_count + failure_count
    IN [completed |-> signals,
        result |-> IF signals = <<>>
                   THEN PerformanceMetrics(0, 0, 0, <<0, 1>>)
                   ELSE PerformanceMetrics(Len(signals), success_count, failure_count,
                                           IF total_completed > 0
                                           THEN <<success_count, total_completed>>
                                           ELSE <<0, 1>>)]

\* get_performance_metrics(timeframe): [completed, result], completed being
\* completed_signals after the call
get_performance_metrics(comp, timeframe, t) ==
    LET signals == WithinTimeframe(comp, timeframe, t)
        success_count == CountOutcome(signals, "SUCCESS")
        failure_count == CountOutcome(signals, "FAILURE")
        total_completed == success_count + failure_count
    IN [completed |-> comp,
        result |-> IF signals = <<>>
                   THEN PerformanceMetrics(0, 0, 0, <<0, 1>>)
                   ELSE PerformanceMetrics(Len(signals), success_count, failure_count,
                                           IF total_completed > 0
                                           THEN <<success_count, total_completed>>
                                           ELSE <<0, 1>>)]

----------------------------------------------------------------------------
(* SignalFilter *)

Signal(type, indicator, strength, timestamp) ==
    [type |-> type, indicator |-> indicator, strength |-> strength, timestamp |-> timestamp]

FilterConfig(min_strength, required_confirmations, cooldown_period, allowed_indicators) ==
    [min_strength |-> min_strength, required_confirmations |-> required_confirmations,
     cooldown_period |-> cooldown_period, allowed_indicators |-> allowed_indicators]

\* what the histories keep of a signal
Occurrence(signal) == <<signal.indicator, signal.type, signal.timestamp>>

\* key = f"{signal.indicator}_{signal.type.value}"
CooldownKey(signal) == <<signal.indicator, signal.type>>

\* mutant: no strength check
_check_strength_always(cfg, signal) == TRUE

_check_strength(cfg, signal) == RGe(signal.strength, cfg.min_strength)

\* mutant: the last-seen time is never stored
_check_cooldown_never_updates(cfg, lst, signal) ==
    LET key == CooldownKey(signal)
    IN IF key \in DOMAIN lst /\ signal.timestamp - lst[key] < cfg.cooldown_period
       THEN [ok |-> FALSE, last_signal_time |-> lst]
       ELSE [ok |-> TRUE, last_signal_time |-> lst]

\* _check_cooldown: [ok, last_signal_time]; the last-seen time is set when the check passes
_check_cooldown(cfg, lst, signal) ==
    LET key == CooldownKey(signal)
    IN IF key \in DOMAIN lst /\ signal.timestamp - lst[key] < cfg.cooldown_period
       THEN [ok |-> FALSE, last_signal_time |-> lst]
       ELSE [ok |-> TRUE,
             last_signal_time |-> [k \in (DOMAIN lst) \cup {key} |->
                                      IF k = key THEN signal.timestamp ELSE lst[k]]]

_check_indicator_allowed(cfg, signal) ==
    IF cfg.allowed_indicators = None THEN TRUE
    ELSE signal.indicator \in cfg.allowed_indicators[1]

\* seq[-10:]
LastN(seq, n) == IF Len(seq) > n THEN SubSeq(seq, Len(seq) - n + 1, Len(seq)) ELSE seq

lookback_seconds == 300     \* the 5-minute window of the confirmation check and of the pruning
recent_limit == 10          \* the number of recent signals looked at and kept

\* mutant: the candidate itself is not counted as one confirmation
_check_confirmations_off_by_one(cfg, recent, signal) ==
    IF cfg.required_confirmations <= 1 THEN TRUE
    ELSE LET last == LastN(recent, recent_limit)
             recent_count == Cardinality({i \in DOMAIN last :
                                 /\ last[i].type = signal.type
                                 /\ last[i].indicator # signal.indicator
                                 /\ signal.timestamp - last[i].timestamp <= lookback_seconds})
         IN recent_count >= cfg.required_confirmations

_check_confirmations(cfg, recent, signal) ==
    IF cfg.required_confirmations <= 1 THEN TRUE
    ELSE LET last == LastN(recent, recent_limit)
             recent_count == Cardinality({i \in DOMAIN last :
                                 /\ last[i].type = signal.type
                                 /\ last[i].indicator # signal.indicator
                                 /\ signal.timestamp - last[i].timestamp <= lookback_seconds})
         IN recent_count >= cfg.required_confirmations - 1

\* filter_signal: [result, last_signal_time]
filter_signal(cfg, lst, recent, signal) ==
    IF ~_check_strength(cfg, signal) THEN [result |-> FALSE, last_signal_time |-> lst]
    ELSE LET cd == _check_cooldown(cfg, lst, signal)
         IN IF ~cd.ok THEN [result |-> FALSE, last_signal_time |-> cd.last_signal_time]
            ELSE IF ~_check_indicator_allowed(cfg, signal)
                 THEN [result |-> FALSE, last_signal_time |-> cd.last_signal_time]
            ELSE IF ~_check_confirmations(cfg, recent, signal)
                 THEN [result |-> FALSE, last_signal_time |-> cd.last_signal_time]
            ELSE [result |-> TRUE, last_signal_time |-> cd.last_signal_time]

\* update_recent_signals: recent_signals after the call
update_recent_signals(recent, signal) ==
    LET extended == Append(recent, signal)
        kept == LastN(extended, recent_limit)
    IN SelectSeq(kept, LAMBDA x : signal.timestamp - x.timestamp <= lookback_seconds)

----------------------------------------------------------------------------
(* TechnicalAnalyzer and SignalGenerator *)

RMin(a, b) == IF RLe(a, b) THEN a ELSE b
One == <<1, 1>>

rsi_period == 14        \* calculate_rsi(period=14)

RECURSIVE SumSeq(_)
SumSeq(seq) == IF seq = <<>> THEN 0 ELSE Head(seq) + SumSeq(Tail(seq))

\* delta = close.diff(), without its first (NaN) entry
Diff(closes) == [i \in 1..(Len(closes) - 1) |-> closes[i + 1] - closes[i]]

\* mutant: the neutral value whatever the closes
calculate_rsi_neutral(closes) == <<50, 1>>

\* mutant: rs itself, as a percentage, instead of 100 - 100 / (1 + rs)
calculate_rsi_ratio(closes) ==
    IF Len(closes) < rsi_period + 1 THEN <<50, 1>>
    ELSE LET delta == LastN(Diff(closes), rsi_period)
             gain == SumSeq([i \in DOMAIN delta |-> IF delta[i] < 0 THEN 0 ELSE delta[i]])
             loss == SumSeq([i \in DOMAIN delta |-> IF delta[i] > 0 THEN 0 ELSE -delta[i]])
         IN IF loss = 0 THEN (IF gain = 0 THEN <<50, 1>> ELSE <<100, 1>>)
            ELSE <<100 * gain, loss>>

\* mutant: 50 wherever the window has no loss
calculate_rsi_fills_no_loss(closes) ==
    IF Len(closes) < rsi_period + 1 THEN <<50, 1>>
    ELSE LET delta == LastN(Diff(closes), rsi_period)
             gain == SumSeq([i \in DOMAIN delta |-> IF delta[i] < 0 THEN 0 ELSE delta[i]])
             loss == SumSeq([i \in DOMAIN delta |-> IF delta[i] > 0 THEN 0 ELSE -delta[i]])
         IN IF loss = 0 THEN <<50, 1>>
            ELSE <<100 * gain, gain + loss>>

\* calculate_rsi().iloc[-1]: the rolling means need rsi_period deltas, so the
\* value is NaN (filled with 50) until there are rsi_period + 1 closes; with
\* no loss in the window rs is inf (rsi 100) or 0/0 = NaN (rsi 50)
calculate_rsi(closes) ==
    IF Len(closes) < rsi_period + 1 THEN <<50, 1>>
    ELSE LET delta == LastN(Diff(closes), rsi_period)
             gain == SumSeq([i \in DOMAIN delta |-> IF delta[i] < 0 THEN 0 ELSE delta[i]])
             loss == SumSeq([i \in DOMAIN delta |-> IF delta[i] > 0 THEN 0 ELSE -delta[i]])
         IN IF loss = 0 THEN (IF gain = 0 THEN <<50, 1>> ELSE <<100, 1>>)
            ELSE <<100 * gain, gain + loss>>

\* calculate_rsi(): the whole series; the rolling window makes the value at an
\* index depend on the closes up to that index only
RsiSeries(closes) == [i \in DOMAIN closes |-> calculate_rsi(SubSeq(closes, 1, i))]

bb_period == 20         \* calculate_bollinger_bands(period=20)
std_dev == 2            \* calculate_bollinger_bands(std_dev=2.0)
StdScale == 10          \* the standard deviation is kept in tenths

RMax(a, b) == IF RLe(a, b) THEN b ELSE a

\* bisection: lo * lo <= n < hi * hi
RECURSIVE ISqrtIn(_, _, _)
ISqrtIn(n, lo, hi) ==
    IF hi - lo <= 1 THEN lo
    ELSE LET mid == (lo + hi) \div 2
         IN IF mid * mid <= n THEN ISqrtIn(n, mid, hi) ELSE ISqrtIn(n, lo, mid)
\* the square root, rounded down
ISqrt(n) == ISqrtIn(n, 0, n \div 2 + 2)

\* rolling(window=period).std() at the last close: the sample standard
\* deviation (ddof = 1) of the window, in tenths, rounded down
RollingStd(window) ==
    LET n == Len(window)
        sum == SumSeq(window)
        squares == SumSeq([i \in DOMAIN window |-> window[i] * window[i]])
    IN ISqrt(((n * squares - sum * sum) * StdScale * StdScale) \div (n * (n - 1)))

\* the three values of calculate_bollinger_bands at the last close of closes:
\* rationals; before bb_period closes the rolling mean and deviation are NaN
\* and the fills apply (middle = close, upper and lower = close +- std_dev)
BandsAt(closes) ==
    LET close == closes[Len(closes)]
        window == LastN(closes, bb_period)
        defined == Len(closes) >= bb_period
        den == bb_period * StdScale
        middle == IF defined THEN <<SumSeq(window) * StdScale, den>> ELSE <<close, 1>>
        upper == IF defined
                 THEN <<SumSeq(window) * StdScale + bb_period * std_dev * RollingStd(window), den>>
                 ELSE <<close + std_dev, 1>>
        lower == IF defined
                 THEN <<SumSeq(window) * StdScale - bb_period * std_dev * RollingStd(window), den>>
                 ELSE <<close - std_dev, 1>>
    IN [upper |-> RMax(upper, middle), middle |-> middle, lower |-> RMin(lower, middle)]

\* mutant: the bands are returned in the order lower, middle, upper
calculate_bollinger_bands_lower_first(closes) ==
    [i \in DOMAIN closes |->
        LET b == BandsAt(SubSeq(closes, 1, i))
        IN [upper |-> b.lower, middle |-> b.middle, lower |-> b.upper]]

\* calculate_bollinger_bands(): the three series, index by index
calculate_bollinger_bands(closes) == [i \in DOMAIN closes |-> BandsAt(SubSeq(closes, 1, i))]

\* mutant: the levels 70 and 30 themselves give no signal
_check_rsi_strict(data) ==
    LET rsi == data.rsi
    IN IF RLt(<<70, 1>>, rsi)
       THEN << Signal("SELL", "RSI", RMin(<<rsi[1] - 70 * rsi[2], 15 * rsi[2]>>, One), data.timestamp) >>
       ELSE IF RLt(rsi, <<30, 1>>)
       THEN << Signal("BUY", "RSI", RMin(<<30 * rsi[2] - rsi[1], 15 * rsi[2]>>, One), data.timestamp) >>
       ELSE <<>>

\* _check_rsi: <<>> for None, else <<signal>>
_check_rsi(data) ==
    LET rsi == data.rsi
    IN IF RGe(rsi, <<70, 1>>)
       THEN << Signal("SELL", "RSI", RMin(<<rsi[1] - 70 * rsi[2], 15 * rsi[2]>>, One), data.timestamp) >>
       ELSE IF RLe(rsi, <<30, 1>>)
       THEN << Signal("BUY", "RSI", RMin(<<30 * rsi[2] - rsi[1], 15 * rsi[2]>>, One), data.timestamp) >>
       ELSE <<>>

\* min(x / signal * 100, 1) for x > 0: x / 0 is inf in float arithmetic
MacdStrength(x, signal) ==
    IF signal = 0 THEN One
    ELSE IF signal > 0 THEN RMin(<<x * 100, signal>>, One)
    ELSE RMin(<<-(x * 100), -signal>>, One)

\* mutant: the directions exchanged
_check_macd_reversed(data) ==
    LET macd == data.macd
        signal == data.macd_signal
    IN IF macd > signal
       THEN << Signal("SELL", "MACD", MacdStrength(macd - signal, signal), data.timestamp) >>
       ELSE IF macd < signal
       THEN << Signal("BUY", "MACD", MacdStrength(signal - macd, signal), data.timestamp) >>
       ELSE <<>>

\* _check_macd: macd and macd_signal are integers (in some small unit)
_check_macd(data) ==
    LET macd == data.macd
        signal == data.macd_signal
    IN IF macd > signal
       THEN << Signal("BUY", "MACD", MacdStrength(macd - signal, signal), data.timestamp) >>
       ELSE IF macd < signal
       THEN << Signal("SELL", "MACD", MacdStrength(signal - macd, signal), data.timestamp) >>
       ELSE <<>>

\* mutant: the strength is not scaled by 2% of the band
_check_bollinger_bands_unscaled(data) ==
    LET close == data.close
        upper == data.bb_upper
        lower == data.bb_lower
    IN IF close < lower
       THEN << Signal("BUY", "BB", MacdStrength(lower - close, 100 * lower), data.timestamp) >>
       ELSE IF close > upper
       THEN << Signal("SELL", "BB", MacdStrength(close - upper, 100 * upper), data.timestamp) >>
       ELSE <<>>

\* _check_bollinger_bands: min((lower - close) / (lower * 0.02), 1)
_check_bollinger_bands(data) ==
    LET close == data.close
        upper == data.bb_upper
        lower == data.bb_lower
    IN IF close < lower
       THEN << Signal("BUY", "BB", MacdStrength(lower - close, 2 * lower), data.timestamp) >>
       ELSE IF close > upper
       THEN << Signal("SELL", "BB", MacdStrength(close - upper, 2 * upper), data.timestamp) >>
       ELSE <<>>

\* mutant: one line beyond the level is enough
_check_stochastic_either(data) ==
    LET k == data.stoch_k
        d == data.stoch_d
    IN IF k < 20 \/ d < 20
       THEN << Signal("BUY", "STOCH", <<20 - (IF k > d THEN k ELSE d), 20>>, data.timestamp) >>
       ELSE IF k > 80 \/ d > 80
       THEN << Signal("SELL", "STOCH", <<(IF k < d THEN k ELSE d) - 80, 20>>, data.timestamp) >>
       ELSE <<>>

\* _check_stochastic
_check_stochastic(data) ==
    LET k == data.stoch_k
        d == data.stoch_d
    IN IF k < 20 /\ d < 20
       THEN << Signal("BUY", "STOCH", <<20 - (IF k > d THEN k ELSE d), 20>>, data.timestamp) >>
       ELSE IF k > 80 /\ d > 80
       THEN << Signal("SELL", "STOCH", <<(IF k < d THEN k ELSE d) - 80, 20>>, data.timestamp) >>
       ELSE <<>>

\* self.strategies, in the dict's order: the columns each strategy needs
strategies ==
    << [indicator |-> "RSI", required_columns |-> {"rsi"}],
       [indicator |-> "MACD", required_columns |-> {"macd", "macd_signal"}],
       [indicator |-> "BB", required_columns |-> {"bb_upper", "bb_lower", "close"}],
       [indicator |-> "STOCH", required_columns |-> {"stoch_k", "stoch_d"}] >>

Strategy(indicator, data) ==
    CASE indicator = "RSI" -> _check_rsi(data)
      [] indicator = "MACD" -> _check_macd(data)
      [] indicator = "BB" -> _check_bollinger_bands(data)
      [] indicator = "STOCH" -> _check_stochastic(data)

RECURSIVE SignalsFrom(_, _)
SignalsFrom(strats, data) ==
    IF strats = <<>> THEN <<>>
    ELSE LET s == Head(strats)
             found == IF s.required_columns \subseteq DOMAIN data
                      THEN Strategy(s.indicator, data) ELSE <<>>
         IN found \o SignalsFrom(Tail(strats), data)

\* mutant: the loop stops at the first signal
generate_signals_first_only(data) ==
    LET all == SignalsFrom(strategies, data)
    IN IF all = <<>> THEN <<>> ELSE <<Head(all)>>

\* generate_signals: data is the last row of the frame, a record of its columns
generate_signals(data) == SignalsFrom(strategies, data)

----------------------------------------------------------------------------
(* RealtimeAnalyzer *)

buffer_size == 100          \* self.buffer_size
indicator_min_rows == 14    \* indicators are calculated from this many rows on
signal_min_rows == 20       \* signals are generated from this many rows on

\* a tick: the dict passed to handle_price_update; a missing key is None
PriceData(price, timestamp, volume, high, low) ==
    [price |-> price, timestamp |-> timestamp, volume |-> volume, high |-> high, low |-> low]

\* price_data.get(key, default)
GetOr(opt, default) == IF opt = None THEN default ELSE opt[1]

Closes(buffer) == [i \in DOMAIN buffer |-> buffer[i].close]

\* the (macd, macd_signal) pairs the model lets calculate_macd end with
MacdValues == {<<2, 1>>, <<-1, -2>>, <<1001, 1000>>}

\* calculate_macd()[0..1].iloc[-1], as the set of values it may take: the
\* exponential averages of equal closes are that close, which gives 0 and 0;
\* for other closes the averages are not computed and any pair of MacdValues
\* may come out
calculate_macd(closes) ==
    IF \A i \in DOMAIN closes : closes[i] = closes[1] THEN {<<0, 0>>} ELSE MacdValues

\* the loop of _update_active_signals over list(self.active_signals.items());
\* update_signal raises ZeroDivisionError in _calculate_return for a signal
\* whose entry_price is 0, which ends the loop
RECURSIVE UpdateEach(_, _, _, _, _, _)
UpdateEach(items, an_act, act, comp, current_price, t) ==
    IF items = <<>>
    THEN [analyzer_active |-> an_act, active |-> act, completed |-> comp, raised |-> FALSE]
    ELSE LET signal_id == Head(items).signal_id
             r == update_signal(act, comp, signal_id, current_price, t)
             done == r.result # None /\ ~Has(r.active, r.result[1].signal_id)
         IN IF Has(act, signal_id) /\ Get(act, signal_id).entry_price = 0
            THEN [analyzer_active |-> an_act, active |-> act, completed |-> comp,
                  raised |-> TRUE]
            ELSE UpdateEach(Tail(items),
                            IF done THEN DictDel(an_act, signal_id) ELSE an_act,
                            r.active, r.completed, current_price, t)

\* mutant: the tracker is not asked
_update_active_signals_skips(an_act, act, comp, current_price, t) ==
    [analyzer_active |-> an_act, active |-> act, completed |-> comp, raised |-> FALSE]

\* _update_active_signals: the ids the tracker completed are deleted from the
\* analyzer's map after the loop, so none is deleted when the loop raises
\* mutant: completed signals stay in the analyzer's map
_update_active_signals_keeps_map(an_act, act, comp, current_price, t) ==
    [UpdateEach(an_act, an_act, act, comp, current_price, t) EXCEPT !.analyzer_active = an_act]

_update_active_signals(an_act, act, comp, current_price, t) ==
    LET r == UpdateEach(an_act, an_act, act, comp, current_price, t)
    IN IF r.raised THEN [r EXCEPT !.analyzer_active = an_act] ELSE r

\* one call of a signal subscriber, as seen at the time of the call
Delivery(callback, signal, signal_id, act) ==
    [callback |-> callback, signal |-> signal, signal_id |-> signal_id,
     registered |-> Has(act, signal_id),
     entry_price |-> IF Has(act, signal_id) THEN <<Get(act, signal_id).entry_price>> ELSE None]

\* mutant: nobody is called
_notify_nobody(subs, signal, signal_id, act) == <<>>

\* _notify_signal_subscribers: the calls it makes, in order (an exception of a
\* callback is logged and the next callback is called)
_notify_signal_subscribers(subs, signal, signal_id, act) ==
    LET specific == IF signal.indicator \in DOMAIN subs THEN subs[signal.indicator] ELSE <<>>
        callbacks == specific \o subs["ALL"]
    IN [i \in DOMAIN callbacks |-> Delivery(callbacks[i], signal, signal_id, act)]

\* mutant: every generated signal is registered and pushed, accepted or not
FilterOne_ignores_filter(signal, cfg, recent, subs, st, current_price, t) ==
    LET f == filter_signal(cfg, st.last_signal_time, recent, signal)
        signal_id == st.next_uuid
        act == add_signal(st.active, signal_id, signal.type, signal.indicator,
                          current_price, <<(current_price * 95) \div 100>>,
                          <<(current_price * 105) \div 100>>, t)
    IN [last_signal_time |-> f.last_signal_time,
        accepted |-> IF f.result THEN st.accepted \cup {Occurrence(signal)} ELSE st.accepted,
        next_uuid |-> signal_id + 1,
        active |-> act,
        analyzer_active |-> DictSet(st.analyzer_active, signal_id,
                                     [signal_id |-> signal_id, signal |-> signal]),
        delivered |-> st.delivered \o _notify_signal_subscribers(subs, signal, signal_id, act)]

\* the body of the loop of handle_price_update over the generated signals
\* (lines 151-170); st carries what the loop changes.  stop_loss and
\* take_profit are current_price * 0.95 and * 1.05, whole numbers for the
\* prices of the model
FilterOne(signal, cfg, recent, subs, st, current_price, t) ==
    LET f == filter_signal(cfg, st.last_signal_time, recent, signal)
        signal_id == st.next_uuid
        act == add_signal(st.active, signal_id, signal.type, signal.indicator,
                          current_price, <<(current_price * 95) \div 100>>,
                          <<(current_price * 105) \div 100>>, t)
    IN IF f.result
       THEN [last_signal_time |-> f.last_signal_time,
             accepted |-> st.accepted \cup {Occurrence(signal)},
             next_uuid |-> signal_id + 1,
             active |-> act,
             analyzer_active |-> DictSet(st.analyzer_active, signal_id,
                                          [signal_id |-> signal_id, signal |-> signal]),
             delivered |-> st.delivered \o
                           _notify_signal_subscribers(subs, signal, signal_id, act)]
       ELSE [st EXCEPT !.last_signal_time = f.last_signal_time]

RECURSIVE FilterEach(_, _, _, _, _, _, _)
FilterEach(signals, cfg, recent, subs, st, current_price, t) ==
    IF signals = <<>> THEN st
    ELSE FilterEach(Tail(signals), cfg, recent, subs,
                    FilterOne(Head(signals), cfg, recent, subs, st, current_price, t),
                    current_price, t)

\* mutant: the oldest rows are kept
AppendRow_keeps_head(buffer, row) ==
    LET concat == Append(buffer, row)
    IN IF Len(concat) > buffer_size THEN SubSeq(concat, 1, buffer_size) ELSE concat

\* pd.concat([...], ignore_index=True) and tail(self.buffer_size) (lines 99-101)
AppendRow(buffer, row) ==
    LET concat == Append(buffer, row)
    IN IF Len(concat) > buffer_size THEN LastN(concat, buffer_size) ELSE concat

----------------------------------------------------------------------------
(* Actions: the tracker's operations called directly *)

AddSignal(id, ty, ind, p, sl, tp) ==
    /\ n_adds[1] + n_adds[2] < MaxAdds
    /\ active_signals' = add_signal(active_signals, id, ty, ind, p, sl, tp, now)
    /\ n_adds' = [n_adds EXCEPT ![id] = @ + 1]
    /\ UNCHANGED <<now, completed_signals, filter_vars, analyzer_vars, stream_vars, generator_vars, call_vars>>

UpdateSignal(id, p) ==
    LET r == update_signal(active_signals, completed_signals, id, p, now)
    IN /\ active_signals' = r.active
       /\ completed_signals' = r.completed
       /\ UNCHANGED <<now, n_adds, filter_vars, analyzer_vars, stream_vars, generator_vars, call_vars>>

CompleteSignal(id, p) ==
    LET r == complete_signal(active_signals, completed_signals, id, p, now)
    IN /\ active_signals' = r.active
       /\ completed_signals' = r.completed
       /\ UNCHANGED <<now, n_adds, filter_vars, analyzer_vars, stream_vars, generator_vars, call_vars>>

CleanupExpiredSignals ==
    LET r == cleanup_expired_signals(active_signals, completed_signals, now)
    IN /\ active_signals' = r.active
       /\ completed_signals' = r.completed
       /\ UNCHANGED <<now, n_adds, filter_vars, analyzer_vars, stream_vars, generator_vars, call_vars>>

\* metrics = tracker.get_performance_metrics(timeframe)
GetPerformanceMetrics(timeframe) ==
    LET r == get_performance_metrics(completed_signals, timeframe, now)
    IN /\ completed_signals' = r.completed
       /\ metrics' = << [timeframe |-> timeframe, at |-> now, result |-> r.result] >>
       /\ UNCHANGED <<now, active_signals, n_adds, filter_vars, analyzer_vars, stream_vars,
                      generator_vars, technical_data, rsi_series, bands>>

\* RealtimeAnalyzer.get_current_performance()
GetCurrentPerformance == GetPerformanceMetrics(None)

\* time passes: datetime.now() returns a later instant
AdvanceClock(t) ==
    /\ t > now
    /\ now' = t
    /\ UNCHANGED <<tracker_vars, filter_vars, analyzer_vars, stream_vars, generator_vars, call_vars>>

----------------------------------------------------------------------------
(* Actions: the filter's operations called directly *)

FilterSignal(signal) ==
    LET r == filter_signal(config, last_signal_time, recent_signals, signal)
    IN /\ last_signal_time' = r.last_signal_time
       /\ accepted' = IF r.result THEN accepted \cup {Occurrence(signal)} ELSE accepted
       /\ UNCHANGED <<now, tracker_vars, config, recent_signals, recorded, analyzer_vars, stream_vars, generator_vars, call_vars>>

UpdateRecentSignals(signal) ==
    /\ recent_signals' = update_recent_signals(recent_signals, signal)
    /\ recorded' = Append(recorded, signal)
    /\ UNCHANGED <<now, tracker_vars, config, last_signal_time, accepted, analyzer_vars, stream_vars, generator_vars, call_vars>>

\* RealtimeAnalyzer.__init__, apart from its filter and tracker
InitAnalyzer ==
    /\ data_buffer = <<>>
    /\ indicators = <<>>
    /\ analyzer_active_signals = <<>>
    /\ signal_subscribers = [k \in {"ALL"} |-> <<>>]
    /\ next_uuid = 1
    /\ n_ticks = 0
    /\ n_raised = 0
    /\ appended = <<>>
    /\ delivered = <<>>
    /\ running = FALSE
    /\ collector_running = FALSE
    /\ ws = None
    /\ collector_subscribers = <<>>
    /\ connections = <<>>
    /\ listeners = <<>>
    /\ start_call = "idle"
    /\ stop_call = [pc |-> "idle", conn |-> 0]
    /\ message = None

\* generate_signals has not been called directly
NoSnapshot ==
    /\ snapshot = None
    /\ generated_signals = None

\* nothing has been queried yet
NoCalls == metrics = None /\ technical_data = None /\ rsi_series = None /\ bands = None

----------------------------------------------------------------------------
(* Actions: the analyzer's operations *)

\* mutant: the snapshot also has band columns, which the close exceeds
latest_data_with_bands(row, rsi_value, macd_value, macd_signal_value) ==
    [timestamp |-> row.timestamp, close |-> row.close, high |-> row.high,
     low |-> row.low, volume |-> row.volume, rsi |-> rsi_value,
     macd |-> macd_value, macd_signal |-> macd_signal_value,
     bb_upper |-> 1, bb_lower |-> 0]

\* latest_data, the one-row frame handed to generate_signals (lines 114-123)
latest_data(row, rsi_value, macd_value, macd_signal_value) ==
    [timestamp |-> row.timestamp,
     close |-> row.close,
     high |-> row.high,
     low |-> row.low,
     volume |-> row.volume,
     rsi |-> rsi_value,
     macd |-> macd_value,
     macd_signal |-> macd_signal_value]

\* handle_price_update(price_data, callback), from its first line to its return
\* or to the exception it re-raises; callback is "none", "returns" or "raises"
HandleTick(price_data, callback) ==
    /\ n_ticks' = n_ticks + 1
    /\ UNCHANGED <<now, n_adds, config, recent_signals, recorded, signal_subscribers,
                   generator_vars, call_vars>>
    /\ IF price_data.price = None
       THEN \* KeyError at line 85
            /\ n_raised' = n_raised + 1
            /\ UNCHANGED <<active_signals, completed_signals, last_signal_time, accepted,
                           data_buffer, indicators, analyzer_active_signals, next_uuid,
                           appended, delivered>>
       ELSE LET current_price == price_data.price[1]
                u == _update_active_signals(analyzer_active_signals, active_signals,
                                            completed_signals, current_price, now)
            IN IF u.raised \/ price_data.volume = None
               THEN \* ZeroDivisionError in _update_active_signals, or KeyError at
                    \* line 95, after _update_active_signals
                    /\ n_raised' = n_raised + 1
                    /\ active_signals' = u.active
                    /\ completed_signals' = u.completed
                    /\ analyzer_active_signals' = u.analyzer_active
                    /\ UNCHANGED <<last_signal_time, accepted, data_buffer, indicators,
                                   next_uuid, appended, delivered>>
               ELSE LET row == [timestamp |-> price_data.timestamp,
                                close |-> current_price,
                                high |-> GetOr(price_data.high, current_price),
                                low |-> GetOr(price_data.low, current_price),
                                volume |-> price_data.volume[1]]
                        buffer == AppendRow(data_buffer, row)
                        st0 == [last_signal_time |-> last_signal_time,
                                accepted |-> accepted,
                                next_uuid |-> next_uuid,
                                active |-> u.active,
                                analyzer_active |-> u.analyzer_active,
                                delivered |-> delivered]
                    IN /\ data_buffer' = buffer
                       /\ appended' = Append(appended, row)
                       /\ completed_signals' = u.completed
                       /\ IF Len(buffer) >= indicator_min_rows
                          THEN \E m \in calculate_macd(Closes(buffer)) :
                                 LET rsi_value == calculate_rsi(Closes(buffer))
                                     st == IF Len(buffer) >= signal_min_rows
                                           THEN FilterEach(generate_signals(latest_data(row, rsi_value, m[1], m[2])), config,
                                                           recent_signals, signal_subscribers,
                                                           st0, current_price, now)
                                           ELSE st0
                                 IN /\ indicators' = [rsi |-> rsi_value, macd |-> m[1],
                                                      macd_signal |-> m[2]]
                                    /\ last_signal_time' = st.last_signal_time
                                    /\ accepted' = st.accepted
                                    /\ next_uuid' = st.next_uuid
                                    /\ active_signals' = st.active
                                    /\ analyzer_active_signals' = st.analyzer_active
                                    /\ delivered' = st.delivered
                                    /\ n_raised' = IF callback = "raises"
                                                   THEN n_raised + 1 ELSE n_raised
                          ELSE /\ active_signals' = u.active
                               /\ analyzer_active_signals' = u.analyzer_active
                               /\ UNCHANGED <<indicators, last_signal_time, accepted,
                                              next_uuid, delivered, n_raised>>

\* handle_price_update called directly
HandlePriceUpdate(price_data, callback) ==
    /\ HandleTick(price_data, callback)
    /\ UNCHANGED stream_vars

\* subscribe_to_signals(callback, indicators); indicators is None or a list
RECURSIVE SubscribeEach(_, _, _)
SubscribeEach(subs, callback, inds) ==
    IF inds = <<>> THEN subs
    ELSE LET k == Head(inds)
             cur == IF k \in DOMAIN subs THEN subs[k] ELSE <<>>
         IN SubscribeEach([x \in (DOMAIN subs) \cup {k} |->
                               IF x = k THEN Append(cur, callback) ELSE subs[x]],
                          callback, Tail(inds))

SubscribeToSignals(callback, inds) ==
    /\ signal_subscribers' = IF inds = None
                             THEN [signal_subscribers EXCEPT !["ALL"] = Append(@, callback)]
                             ELSE SubscribeEach(signal_subscribers, callback, inds[1])
    /\ UNCHANGED <<now, tracker_vars, filter_vars, data_buffer, indicators,
                   analyzer_active_signals, next_uuid, n_ticks, n_raised, appended, delivered,
                   stream_vars, generator_vars, call_vars>>

\* analyzer.signal_filter = SignalFilter(cfg): a new filter replaces the installed one
InstallFilter(cfg) ==
    /\ config' = cfg
    /\ last_signal_time' = <<>>
    /\ recent_signals' = <<>>
    /\ UNCHANGED <<now, tracker_vars, accepted, recorded, analyzer_vars, stream_vars, generator_vars, call_vars>>

\* signals = generate_signals(data), called directly on a frame whose last row is snapshot
GenerateSignals ==
    /\ snapshot # None
    /\ generated_signals' = <<generate_signals(snapshot)>>
    /\ UNCHANGED <<now, tracker_vars, filter_vars, analyzer_vars, stream_vars, snapshot, call_vars>>

\* rsi = TechnicalAnalyzer(data).calculate_rsi()
CalculateRsi ==
    /\ technical_data # None
    /\ rsi_series' = <<RsiSeries(technical_data)>>
    /\ UNCHANGED <<now, tracker_vars, filter_vars, analyzer_vars, stream_vars, generator_vars,
                   metrics, technical_data, bands>>

\* upper, middle, lower = TechnicalAnalyzer(data).calculate_bollinger_bands()
CalculateBollingerBands ==
    /\ technical_data # None
    /\ bands' = <<calculate_bollinger_bands(technical_data)>>
    /\ UNCHANGED <<now, tracker_vars, filter_vars, analyzer_vars, stream_vars, generator_vars,
                   metrics, technical_data, rsi_series>>

----------------------------------------------------------------------------
(* CryptoPriceCollector and PriceDataValidator *)

\* a symbol is the sequence of its characters
AnalyzerSymbol == <<"B", "T", "C", "/", "U", "S", "D", "T">>     \* RealtimeAnalyzer("BTC/USDT")

UpperCase == <<"B", "C", "D", "E", "H", "S", "T", "U">>
LowerCase == <<"b", "c", "d", "e", "h", "s", "t", "u">>
LowerChar(c) ==
    IF \E i \in DOMAIN UpperCase : UpperCase[i] = c
    THEN LowerCase[CHOOSE i \in DOMAIN UpperCase : UpperCase[i] = c]
    ELSE c
\* str.lower()
Lower(sym) == [i \in DOMAIN sym |-> LowerChar(sym[i])]
\* str.replace('/', '')
StripSlash(sym) == SelectSeq(sym, LAMBDA c : c # "/")
\* str.endswith(suffix)
EndsWith(sym, suffix) ==
    /\ Len(sym) >= Len(suffix)
    /\ SubSeq(sym, Len(sym) - Len(suffix) + 1, Len(sym)) = suffix

\* the key of subscribe_to_price_updates: symbol.replace('/', '').lower()
SubscriberKey(sym) == Lower(StripSlash(sym))

quote_suffixes ==
    << <<"U", "S", "D", "T">>, <<"U", "S", "D", "C">>, <<"T", "U", "S", "D">>,
       <<"B", "T", "C">>, <<"E", "T", "H">> >>

\* validate_price_data's rewriting of data['symbol']: <<>> when the format is invalid
ValidatedSymbol(sym) ==
    IF \E i \in DOMAIN sym : sym[i] = "/" THEN <<sym>>
    ELSE IF \E k \in DOMAIN quote_suffixes : EndsWith(sym, quote_suffixes[k])
    THEN LET k == CHOOSE k \in DOMAIN quote_suffixes :
                     /\ EndsWith(sym, quote_suffixes[k])
                     /\ \A j \in 1..(k - 1) : ~EndsWith(sym, quote_suffixes[j])
             suffix == quote_suffixes[k]
         IN << SubSeq(sym, 1, Len(sym) - Len(suffix)) \o <<"/">> \o suffix >>
    ELSE IF Len(sym) > 4
    THEN << SubSeq(sym, 1, Len(sym) \div 2) \o <<"/">> \o SubSeq(sym, Len(sym) \div 2 + 1, Len(sym)) >>
    ELSE IF Len(sym) = 4
    THEN << SubSeq(sym, 1, 1) \o <<"/">> \o SubSeq(sym, 2, 4) >>
    ELSE <<>>

\* a ticker of the stream: its symbol 's', last price 'c' and volume 'v'
Ticker(sym, c, v) == [s |-> sym, c |-> c, v |-> v]

\* _process_price_data: <<>> for None, else <<validated_data>>; the price and
\* volume of the model's tickers are inside the validator's ranges when
\* positive, and the timestamp is datetime.now()
_process_price_data(raw_data, t) ==
    LET symbol == ValidatedSymbol(raw_data.s)
    IN IF raw_data.c <= 0 \/ raw_data.v < 0 \/ symbol = <<>> THEN <<>>
       ELSE << [symbol |-> symbol[1], price |-> raw_data.c, volume |-> raw_data.v,
                timestamp |-> t] >>

\* the callbacks the second _listen_to_stream (lines 163-183) awaits for a ticker
CallbacksFor(subs, raw_data, t) ==
    LET validated == _process_price_data(raw_data, t)
    IN IF validated = <<>> THEN <<>>
       ELSE LET symbol == Lower(validated[1].symbol)
            IN IF symbol \in DOMAIN subs THEN subs[symbol] ELSE <<>>

\* the loop condition of _listen_to_stream: self.running and self.ws
KeepsListening(is_running, socket) == is_running /\ socket # None

\* where a listener is after evaluating the loop condition: waiting in
\* ws.recv() on the current connection, or returned
AtLoopHead(is_running, socket) ==
    IF KeepsListening(is_running, socket)
    THEN [pc |-> "recv", conn |-> socket[1]]
    ELSE [pc |-> "done", conn |-> 0]

----------------------------------------------------------------------------
(* Actions: start, stop and the stream listeners.  A step runs one coroutine    *)
(* from one suspension point (an await that waits) to the next                *)

orchestrator_vars == <<now, tracker_vars, filter_vars, analyzer_vars, generator_vars, call_vars>>

NewListener == [pc |-> "created", conn |-> 0]

\* start(): self.running = True, then it waits in connect_realtime
Start ==
    /\ start_call = "idle"
    /\ running' = TRUE
    /\ start_call' = "connecting"
    /\ UNCHANGED <<orchestrator_vars, collector_running, ws, collector_subscribers,
                   connections, listeners, stop_call, message>>

\* websockets.connect returns (ok) or raises in the connect_realtime that
\* start() awaits; then subscribe_to_price_updates runs and start() returns
StartConnected(ok, callback) ==
    /\ start_call = "connecting"
    /\ IF ok
       THEN /\ connections' = Append(connections, "open")
            /\ ws' = <<Len(connections) + 1>>
            /\ collector_running' = TRUE
            /\ listeners' = Append(listeners, NewListener)
       ELSE UNCHANGED <<connections, ws, collector_running, listeners>>
    /\ LET key == SubscriberKey(AnalyzerSymbol)
           cur == IF key \in DOMAIN collector_subscribers
                  THEN collector_subscribers[key] ELSE <<>>
       IN collector_subscribers' =
              [k \in (DOMAIN collector_subscribers) \cup {key} |->
                  IF k = key THEN Append(cur, callback) ELSE collector_subscribers[k]]
    /\ start_call' = "done"
    /\ UNCHANGED <<orchestrator_vars, running, stop_call, message>>

\* stop(): self.running = False, then disconnect_realtime up to `await
\* self.ws.close()`, or to its end when there is no connection
Stop ==
    /\ stop_call.pc = "idle"
    /\ running' = FALSE
    /\ collector_running' = FALSE
    /\ stop_call' = IF ws # None THEN [pc |-> "closing", conn |-> ws[1]]
                    ELSE [pc |-> "done", conn |-> 0]
    /\ UNCHANGED <<orchestrator_vars, ws, collector_subscribers, connections, listeners,
                   start_call, message>>

\* ws.close() returns: self.ws = None, and stop() returns
StopClosed ==
    /\ stop_call.pc = "closing"
    /\ connections' = [connections EXCEPT ![stop_call.conn] = "closed"]
    /\ ws' = None
    /\ stop_call' = [pc |-> "done", conn |-> 0]
    /\ UNCHANGED <<orchestrator_vars, running, collector_running, collector_subscribers,
                   listeners, start_call, message>>

\* a listener task starts, or wakes from asyncio.sleep(1): the loop condition
ListenerRun(i) ==
    /\ listeners[i].pc \in {"created", "sleeping"}
    /\ listeners' = [listeners EXCEPT ![i] = AtLoopHead(collector_running, ws)]
    /\ UNCHANGED <<orchestrator_vars, running, collector_running, ws, collector_subscribers,
                   connections, start_call, stop_call, message>>

\* ws.recv() returns a message, a list of one ticker: the subscribed callback
\* (the lambda of start(), which calls handle_price_update) is awaited, an
\* exception it raises sends the listener to asyncio.sleep(1)
ListenerMessage(i, ticker) ==
    /\ listeners[i].pc = "recv"
    /\ connections[listeners[i].conn] = "open"
    /\ LET callbacks == CallbacksFor(collector_subscribers, ticker, now)
       IN IF callbacks = <<>>
          THEN /\ listeners' = [listeners EXCEPT ![i] = AtLoopHead(collector_running, ws)]
               /\ UNCHANGED orchestrator_vars
          ELSE /\ HandleTick(PriceData(<<ticker.c>>, now, <<ticker.v>>, None, None),
                             callbacks[1])
               /\ listeners' = [listeners EXCEPT ![i] =
                                   IF n_raised' > n_raised
                                   THEN [pc |-> "sleeping", conn |-> 0]
                                   ELSE AtLoopHead(collector_running, ws)]
    /\ message' = <<ticker>>
    /\ UNCHANGED <<running, collector_running, ws, collector_subscribers, connections,
                   start_call, stop_call>>

\* ws.recv() raises ConnectionClosed: reconnect() returns at once when
\* self.running is false, else it waits in connect_realtime
ListenerClosed(i) ==
    /\ listeners[i].pc = "recv"
    /\ connections[listeners[i].conn] = "closed"
    /\ listeners' = [listeners EXCEPT ![i] =
                        IF ~collector_running THEN AtLoopHead(collector_running, ws)
                        ELSE [pc |-> "connecting", conn |-> 0]]
    /\ UNCHANGED <<orchestrator_vars, running, collector_running, ws, collector_subscribers,
                   connections, start_call, stop_call, message>>

\* websockets.connect returns (ok) or raises in the connect_realtime that
\* reconnect() awaits; the listener is back at its loop condition
ReconnectDone(i, ok) ==
    /\ listeners[i].pc = "connecting"
    /\ IF ok
       THEN /\ connections' = Append(connections, "open")
            /\ ws' = <<Len(connections) + 1>>
            /\ collector_running' = TRUE
            /\ listeners' = Append([listeners EXCEPT ![i] =
                                       AtLoopHead(TRUE, <<Len(connections) + 1>>)],
                                   NewListener)
       ELSE /\ listeners' = [listeners EXCEPT ![i] = AtLoopHead(collector_running, ws)]
            /\ UNCHANGED <<connections, ws, collector_running>>
    /\ UNCHANGED <<orchestrator_vars, running, collector_subscribers, start_call, stop_call,
                   message>>

\* the exchange or the network closes a connection
ServerCloses(c) ==
    /\ connections[c] = "open"
    /\ connections' = [connections EXCEPT ![c] = "closed"]
    /\ UNCHANGED <<orchestrator_vars, running, collector_running, ws, collector_subscribers,
                   listeners, start_call, stop_call, message>>

\* FilterConfig(): the defaults of the dataclass
DefaultConfig == FilterConfig(<<3, 10>>, 1, 300, None)

Init ==
    /\ now = 0
    /\ active_signals = <<>>
    /\ completed_signals = <<>>
    /\ n_adds = [id \in SignalIds |-> 0]
    /\ config = DefaultConfig
    /\ last_signal_time = <<>>
    /\ recent_signals = <<>>
    /\ accepted = {}
    /\ recorded = <<>>
    /\ InitAnalyzer
    /\ NoSnapshot
    /\ NoCalls

NextTracker ==
    \/ \E id \in SignalIds, ty \in TrackerTypes, ind \in TrackerIndicators,
          p \in EntryPrices, st \in StopTakeLevels :
            AddSignal(id, ty, ind, p, st[1], st[2])
    \/ \E id \in SignalIds, p \in UpdatePrices : UpdateSignal(id, p)
    \/ \E id \in SignalIds, p \in UpdatePrices : CompleteSignal(id, p)
    \/ CleanupExpiredSignals
    \/ \E t \in TrackerTimes : AdvanceClock(t)

SpecTracker == Init /\ [][NextTracker]_vars

----------------------------------------------------------------------------
(* SpecFilter: one SignalFilter, its operations called with any signals *)

MaxRecorded == 1        \* update_recent_signals calls in one behaviour of SpecFilter

FilterConfigs ==
    { FilterConfig(<<7, 10>>, 1, 300, None),
      FilterConfig(<<3, 10>>, 1, 300, <<{"RSI", "MACD"}>>),
      FilterConfig(<<3, 10>>, 2, 300, <<{"RSI", "MACD"}>>) }
FilterKeys == {<<"RSI", "BUY">>, <<"RSI", "SELL">>, <<"BB", "BUY">>}
FilterStrengths == {<<3, 10>>, <<8, 10>>}
FilterTimes == {0, 1, 300, 301}
FilterInputs ==
    {Signal(k[2], k[1], st, ts) : k \in FilterKeys, st \in FilterStrengths, ts \in FilterTimes}
RecordInputs ==
    {Signal("BUY", "MACD", <<8, 10>>, 0)}

InitFilter ==
    /\ now = 0
    /\ active_signals = <<>>
    /\ completed_signals = <<>>
    /\ n_adds = [id \in SignalIds |-> 0]
    /\ config \in FilterConfigs
    /\ last_signal_time = <<>>
    /\ recent_signals = <<>>
    /\ accepted = {}
    /\ recorded = <<>>
    /\ InitAnalyzer
    /\ NoSnapshot
    /\ NoCalls

NextFilter ==
    \/ \E s \in FilterInputs : FilterSignal(s)
    \/ \E s \in RecordInputs : Len(recorded) < MaxRecorded /\ UpdateRecentSignals(s)

SpecFilter == InitFilter /\ [][NextFilter]_vars

----------------------------------------------------------------------------
(* SpecConfirm: one SignalFilter that asks for confirmations; signals are     *)
(* recorded with the clock's time, candidates carry any timestamp            *)

MaxConfirmRecorded == 11    \* update_recent_signals calls in one behaviour of SpecConfirm
MaxBuyRecorded == 2         \* of which BUY signals

ConfirmConfigs == {FilterConfig(<<3, 10>>, k, 300, None) : k \in {1, 2, 3}}
ConfirmTimes == {0, 400}
ConfirmRecordInputs(t) ==
    {Signal("SELL", "BB", <<8, 10>>, t)}
    \cup IF Cardinality({i \in DOMAIN recorded : recorded[i].type = "BUY"}) < MaxBuyRecorded
         THEN {Signal("BUY", "MACD", <<8, 10>>, t)}
         ELSE {}
ConfirmFilterInputs == {Signal("BUY", "RSI", <<8, 10>>, ts) : ts \in {1, 400}}

InitConfirm ==
    /\ now = 0
    /\ active_signals = <<>>
    /\ completed_signals = <<>>
    /\ n_adds = [id \in SignalIds |-> 0]
    /\ config \in ConfirmConfigs
    /\ last_signal_time = <<>>
    /\ recent_signals = <<>>
    /\ accepted = {}
    /\ recorded = <<>>
    /\ InitAnalyzer
    /\ NoSnapshot
    /\ NoCalls

NextConfirm ==
    \/ \E s \in ConfirmFilterInputs : FilterSignal(s)
    \/ \E s \in ConfirmRecordInputs(now) :
          Len(recorded) < MaxConfirmRecorded /\ UpdateRecentSignals(s)
    \/ \E t \in ConfirmTimes : AdvanceClock(t)

SpecConfirm == InitConfirm /\ [][NextConfirm]_vars

----------------------------------------------------------------------------
(* SpecBuffer: one RealtimeAnalyzer fed more ticks than its buffer holds, at a *)
(* steady price; the n-th tick carries the timestamp n, some ticks lack a     *)
(* key or come with a callback that raises                                   *)

MaxBufTicks == 102      \* handle_price_update calls in one behaviour of SpecBuffer

\* the configuration RealtimeAnalyzer.__init__ gives its filter
AnalyzerConfig == FilterConfig(<<3, 10>>, 1, 1, <<{"RSI", "MACD", "BB", "STOCH"}>>)

InitOrchestrator ==
    /\ now = 0
    /\ active_signals = <<>>
    /\ completed_signals = <<>>
    /\ n_adds = [id \in SignalIds |-> 0]
    /\ config = AnalyzerConfig
    /\ last_signal_time = <<>>
    /\ recent_signals = <<>>
    /\ accepted = {}
    /\ recorded = <<>>
    /\ InitAnalyzer
    /\ NoSnapshot
    /\ NoCalls

\* the ticks of a behaviour that may lack a key or come with a raising callback
RaisingTicks == {5, 50, 100, 101, 102}

BufferTicks(n) ==
    { PriceData(<<100>>, n, <<5>>, None, None) }
    \cup IF n \in RaisingTicks
         THEN { PriceData(<<100>>, n, None, None, None),
                PriceData(None, n, <<5>>, None, None) }
         ELSE {}
BufferCallbacks(n) ==
    {"none", "returns"} \cup IF n \in RaisingTicks THEN {"raises"} ELSE {}

NextBuffer ==
    \E price_data \in BufferTicks(n_ticks + 1), callback \in BufferCallbacks(n_ticks + 1) :
        /\ n_ticks < MaxBufTicks
        /\ HandlePriceUpdate(price_data, callback)

SpecBuffer == InitOrchestrator /\ [][NextBuffer]_vars

----------------------------------------------------------------------------
(* Spec: one RealtimeAnalyzer whose handle_price_update is called with ticks   *)
(* stamped with the clock's time; the price is steady until the buffer is one *)
(* row short of generating signals and moves after that                       *)

MaxTicks == 21          \* handle_price_update calls in one behaviour of Spec
MaxSubscriptions == 1   \* subscribe_to_signals calls in one behaviour of Spec

TickPrices == {80, 100, 120}
SteadyPrices == {100}
ClockTimes == {1}
SignalCallbacks == {"h"}
SubscribedIndicators == {None, << <<"RSI">> >>}
InstalledConfigs == {FilterConfig(<<8, 10>>, 1, 300, None)}

WarmingUp == Len(data_buffer) < signal_min_rows - 1

Ticks ==
    IF WarmingUp
    THEN { PriceData(<<p>>, now, <<5>>, None, None) : p \in SteadyPrices }
    ELSE { PriceData(<<p>>, now, v, None, None) : p \in TickPrices, v \in {<<5>>, None} }
TickCallbacks == {"none", "returns"}

Subscriptions ==
    Len(signal_subscribers["ALL"])
    + (IF "RSI" \in DOMAIN signal_subscribers THEN Len(signal_subscribers["RSI"]) ELSE 0)

Next ==
    \/ \E price_data \in Ticks, callback \in TickCallbacks :
          n_ticks < MaxTicks /\ HandlePriceUpdate(price_data, callback)
    \/ \E callback \in SignalCallbacks, inds \in SubscribedIndicators :
          Subscriptions < MaxSubscriptions /\ SubscribeToSignals(callback, inds)
    \/ \E cfg \in InstalledConfigs : n_ticks = 0 /\ config # cfg /\ InstallFilter(cfg)
    \/ \E t \in ClockTimes : ~WarmingUp /\ AdvanceClock(t)

Spec == InitOrchestrator /\ [][Next]_vars

----------------------------------------------------------------------------
(* SpecLive: one RealtimeAnalyzer, alone with its filter, whose                *)
(* handle_price_update is called with steady ticks until the buffer is one row *)
(* short of generating signals and then with ticks whose price moves, of which *)
(* those at MalformedLiveTicks may lack a key; the callback may raise.        *)
(* SpecZero is the same with well-formed ticks whose price may be 0           *)

MaxLiveTicks == 21      \* handle_price_update calls in one behaviour of SpecLive
MaxZeroTicks == 22      \* handle_price_update calls in one behaviour of SpecZero

LivePrices == {80, 100, 120}
ZeroPrices == {0, 100, 120}
MalformedLiveTicks == {21}
MalformedZeroTicks == {}
LiveTimes == {1}
ConfirmingConfig == FilterConfig(<<3, 10>>, 2, 1, <<{"RSI", "MACD", "BB", "STOCH"}>>)

LiveTicks(prices, malformed) ==
    IF WarmingUp
    THEN { PriceData(<<p>>, now, <<5>>, None, None) : p \in SteadyPrices }
    ELSE { PriceData(<<p>>, now, <<5>>, None, None) : p \in prices }
         \cup IF n_ticks + 1 \in malformed
              THEN { PriceData(<<p>>, now, None, None, None) : p \in prices }
                   \cup { PriceData(None, now, <<5>>, None, None) }
              ELSE {}
LiveCallbacks == IF WarmingUp THEN {"none"} ELSE {"none", "raises"}

NextLiveWith(prices, malformed, max_ticks) ==
    \/ \E price_data \in LiveTicks(prices, malformed), callback \in LiveCallbacks :
          n_ticks < max_ticks /\ HandlePriceUpdate(price_data, callback)
    \/ n_ticks = 0 /\ config # ConfirmingConfig /\ InstallFilter(ConfirmingConfig)
    \/ \E t \in LiveTimes : ~WarmingUp /\ AdvanceClock(t)

NextLive == NextLiveWith(LivePrices, MalformedLiveTicks, MaxLiveTicks)
SpecLive == InitOrchestrator /\ [][NextLive]_vars

NextZero == NextLiveWith(ZeroPrices, MalformedZeroTicks, MaxZeroTicks)
SpecZero == InitOrchestrator /\ [][NextZero]_vars

----------------------------------------------------------------------------
(* SpecStream: one RealtimeAnalyzer that is started once and stopped once, at  *)
(* any time, while its collector's connections open, deliver tickers and close *)

MaxConnections == 3     \* websocket connections made in one behaviour of SpecStream

StreamTickers == { Ticker(<<"B", "T", "C", "U", "S", "D", "T">>, 100, 5) }
StartCallbacks == {"none"}

NextStream ==
    \/ stop_call.pc = "idle" /\ Start
    \/ \E ok \in BOOLEAN, callback \in StartCallbacks :
          /\ ok => Len(connections) < MaxConnections
          /\ StartConnected(ok, callback)
    \/ Stop
    \/ StopClosed
    \/ \E i \in DOMAIN listeners : ListenerRun(i)
    \/ \E i \in DOMAIN listeners, ticker \in StreamTickers : ListenerMessage(i, ticker)
    \/ \E i \in DOMAIN listeners : ListenerClosed(i)
    \/ \E i \in DOMAIN listeners, ok \in BOOLEAN :
          /\ ok => Len(connections) < MaxConnections
          /\ ReconnectDone(i, ok)
    \/ \E c \in DOMAIN connections : ServerCloses(c)

SpecStream == InitOrchestrator /\ [][NextStream]_vars

----------------------------------------------------------------------------
(* SpecWarmUp: one RealtimeAnalyzer during its first ticks; the price may move *)
(* at some ticks before the buffer has signal_min_rows rows, one tick may lack *)
(* its volume                                                                  *)

MaxWarmTicks == 20      \* handle_price_update calls in one behaviour of SpecWarmUp

MovingTicks == {15, 20, 21}
MalformedTicks == {16}
WarmPrices == {80, 100}

LastClose == IF data_buffer = <<>> THEN 100 ELSE data_buffer[Len(data_buffer)].close

WarmTicks(n) ==
    { PriceData(<<p>>, now, <<5>>, None, None) :
          p \in IF n \in MovingTicks THEN WarmPrices ELSE {LastClose} }
    \cup IF n \in MalformedTicks
         THEN { PriceData(<<LastClose>>, now, None, None, None) }
         ELSE {}

NextWarmUp ==
    \/ \E price_data \in WarmTicks(n_ticks + 1), callback \in TickCallbacks :
          n_ticks < MaxWarmTicks /\ HandlePriceUpdate(price_data, callback)
    \/ \E callback \in SignalCallbacks, inds \in SubscribedIndicators :
          Subscriptions < MaxSubscriptions /\ SubscribeToSignals(callback, inds)

SpecWarmUp == InitOrchestrator /\ [][NextWarmUp]_vars

----------------------------------------------------------------------------
(* SpecLevels: one tracked signal with stop-loss and take-profit levels close  *)
(* to and far from its entry price, updated at prices on and between them      *)

LevelEntryPrices == {100, 1000}
LevelChoices(p) ==
    IF p = 1000
    THEN {<< None, None >>, << <<995>>, <<1004>> >>, << <<950>>, <<1050>> >>}
    ELSE {<< None, None >>}
LevelUpdatePrices == {95, 950, 995, 1000, 1004, 1050}

NextLevels ==
    \/ \E ty \in TrackerTypes, ind \in TrackerIndicators, p \in LevelEntryPrices :
          \E st \in LevelChoices(p) : AddSignal(1, ty, ind, p, st[1], st[2])
    \/ \E p \in LevelUpdatePrices : UpdateSignal(1, p)

SpecLevels == Init /\ [][NextLevels]_vars

----------------------------------------------------------------------------
(* SpecTimeout: signals registered once, at the first instant, with and without *)
(* levels, updated at prices near their entry price while the clock moves up  *)
(* to and past signal_timeout.  FairSpecTimeout: the clock keeps moving and    *)
(* updates keep arriving for every id                                         *)

TimeoutEntryPrices == {1000}
TimeoutLevels == {<< None, None >>, << <<950>>, <<1050>> >>}
TimeoutUpdatePrices == {1000, 1004, 1010}
TimeoutTimes == {signal_timeout - 1, signal_timeout, 2 * signal_timeout}

KeepsUpdating(id) == \E p \in TimeoutUpdatePrices : UpdateSignal(id, p)

NextTimeout ==
    \/ \E id \in SignalIds, ty \in TrackerTypes, ind \in TrackerIndicators,
          p \in TimeoutEntryPrices, st \in TimeoutLevels :
            /\ now = 0
            /\ ~Has(active_signals, id)
            /\ id \notin {completed_signals[i].signal_id : i \in DOMAIN completed_signals}
            /\ AddSignal(id, ty, ind, p, st[1], st[2])
    \/ \E id \in SignalIds : KeepsUpdating(id)
    \/ \E t \in TimeoutTimes : AdvanceClock(t)

SpecTimeout == Init /\ [][NextTimeout]_vars

FairSpecTimeout ==
    /\ SpecTimeout
    /\ \A t \in TimeoutTimes : WF_vars(AdvanceClock(t))
    /\ \A id \in SignalIds : WF_vars(KeepsUpdating(id))

----------------------------------------------------------------------------
(* SpecGenerator: generate_signals applied to one frame row; the row's        *)
(* columns are drawn from the values below, each group of columns present or  *)
(* absent                                                                     *)

RsiValues == {<<0, 1>>, <<25, 1>>, <<30, 1>>, <<50, 1>>, <<70, 1>>, <<75, 1>>, <<85, 1>>, <<100, 1>>}
MacdPairs == {<<0, 0>>, <<2, 1>>, <<1, 2>>, <<-1, -2>>, <<-2, -1>>, <<1, 0>>, <<60, 50>>}
Bands == {<<110, 90>>, <<52000, 48000>>}       \* (bb_upper, bb_lower)
CloseValues == {89, 90, 100, 111, 47500, 50000}
StochPairs == {<<0, 0>>, <<15, 18>>, <<15, 50>>, <<20, 20>>, <<50, 50>>, <<80, 80>>,
               <<90, 50>>, <<85, 82>>, <<100, 100>>}

Absent == [timestamp |-> 0]
RsiColumns == {Absent} \cup {[rsi |-> v] : v \in RsiValues}
MacdColumns == {Absent} \cup {[macd |-> m[1], macd_signal |-> m[2]] : m \in MacdPairs}
BandColumns == {Absent} \cup {[bb_upper |-> b[1], bb_lower |-> b[2]] : b \in Bands}
CloseColumns == {Absent} \cup {[close |-> c] : c \in CloseValues}
StochColumns == {Absent} \cup {[stoch_k |-> s[1], stoch_d |-> s[2]] : s \in StochPairs}

Snapshots ==
    {Absent @@ r @@ m @@ b @@ c @@ s :
        r \in RsiColumns, m \in MacdColumns, b \in BandColumns, c \in CloseColumns,
        s \in StochColumns}

InitGenerator ==
    /\ now = 0
    /\ active_signals = <<>>
    /\ completed_signals = <<>>
    /\ n_adds = [id \in SignalIds |-> 0]
    /\ config = DefaultConfig
    /\ last_signal_time = <<>>
    /\ recent_signals = <<>>
    /\ accepted = {}
    /\ recorded = <<>>
    /\ InitAnalyzer
    /\ snapshot \in Snapshots
    /\ generated_signals = None
    /\ NoCalls

NextGenerator == GenerateSignals

SpecGenerator == InitGenerator /\ [][NextGenerator]_vars

----------------------------------------------------------------------------
(* SpecRsi: calculate_rsi on one close series: a run of LeadLengths closes    *)
(* that is flat, rising or falling, then up to MaxTail closes at any level    *)

MaxTail == 4            \* the closes that follow the run

LeadLengths == {0, 1, rsi_period - 2, rsi_period, rsi_period + 2}
LeadSteps == {-1, 0, 1, 5}
CloseLevels == {90, 100, 110}

Lead(n, step) == [i \in 1..n |-> 100 + step * i]
Tails == UNION {[1..k -> CloseLevels] : k \in 0..MaxTail}
CloseSeries == {Lead(n, step) \o tail : n \in LeadLengths, step \in LeadSteps, tail \in Tails}

InitRsi ==
    /\ now = 0
    /\ active_signals = <<>>
    /\ completed_signals = <<>>
    /\ n_adds = [id \in SignalIds |-> 0]
    /\ config = DefaultConfig
    /\ last_signal_time = <<>>
    /\ recent_signals = <<>>
    /\ accepted = {}
    /\ recorded = <<>>
    /\ InitAnalyzer
    /\ NoSnapshot
    /\ metrics = None
    /\ technical_data \in CloseSeries
    /\ rsi_series = None
    /\ bands = None

NextRsi == CalculateRsi

SpecRsi == InitRsi /\ [][NextRsi]_vars

----------------------------------------------------------------------------
(* SpecBands: calculate_bollinger_bands on one close series: a run of         *)
(* BandLeadLengths closes, then up to MaxTail closes at any level             *)

BandLeadLengths == {0, 1, bb_period - 2, bb_period - 1, bb_period + 1}
BandSeries ==
    {Lead(n, step) \o tail : n \in BandLeadLengths, step \in LeadSteps, tail \in Tails}

InitBands ==
    /\ now = 0
    /\ active_signals = <<>>
    /\ completed_signals = <<>>
    /\ n_adds = [id \in SignalIds |-> 0]
    /\ config = DefaultConfig
    /\ last_signal_time = <<>>
    /\ recent_signals = <<>>
    /\ accepted = {}
    /\ recorded = <<>>
    /\ InitAnalyzer
    /\ NoSnapshot
    /\ metrics = None
    /\ technical_data \in BandSeries
    /\ rsi_series = None
    /\ bands = None

NextBands == CalculateBollingerBands

SpecBands == InitBands /\ [][NextBands]_vars

----------------------------------------------------------------------------
(* SpecMetrics: the performance query on a tracker that has completed up to   *)
(* MaxCompleted signals, some of them two days ago, and may hold one active   *)
(* signal                                                                     *)

MaxCompleted == 3

MetricsStart == 2 * signal_timeout
MetricsTimes == {MetricsStart + 3600}
Timeframes == {None, <<0>>, <<signal_timeout>>}     \* None, timedelta(0), timedelta(days=1)

\* a signal added at entry_time and completed at exit_price at time t
CompletedBy(id, type, entry_time, exit_price, t) ==
    complete_signal(add_signal(<<>>, id, type, "RSI", 100, None, None, entry_time),
                    <<>>, id, exit_price, t).completed[1]

\* a signal added at entry_time and expired by the cleanup at time t
ExpiredBy(id, entry_time, t) ==
    cleanup_expired_signals(add_signal(<<>>, id, "BUY", "RSI", 100, None, None, entry_time),
                            <<>>, t).completed[1]

CompletedKinds(id) ==
    { CompletedBy(id, "BUY", 0, 105, 60),
      CompletedBy(id, "BUY", MetricsStart - 60, 105, MetricsStart),
      CompletedBy(id, "SELL", MetricsStart - 60, 95, MetricsStart),
      CompletedBy(id, "BUY", MetricsStart - 60, 98, MetricsStart),
      CompletedBy(id, "BUY", MetricsStart - 60, 100, MetricsStart),
      ExpiredBy(id, 0, signal_timeout) }

\* the lists of n completed signals, with the ids 3, 4, ...
RECURSIVE CompletedListsOf(_)
CompletedListsOf(n) ==
    IF n = 0 THEN {<<>>}
    ELSE {Append(list, s) : list \in CompletedListsOf(n - 1), s \in CompletedKinds(n + 2)}

CompletedLists == UNION {CompletedListsOf(n) : n \in 0..MaxCompleted}

ActiveLists ==
    { <<>>, add_signal(<<>>, 1, "BUY", "RSI", 100, None, None, MetricsStart - 60) }

InitMetrics ==
    /\ now = MetricsStart
    /\ active_signals \in ActiveLists
    /\ completed_signals \in CompletedLists
    /\ n_adds = [id \in SignalIds |-> 0]
    /\ config = DefaultConfig
    /\ last_signal_time = <<>>
    /\ recent_signals = <<>>
    /\ accepted = {}
    /\ recorded = <<>>
    /\ InitAnalyzer
    /\ NoSnapshot
    /\ NoCalls

NextMetrics ==
    \/ \E timeframe \in Timeframes : GetPerformanceMetrics(timeframe)
    \/ GetCurrentPerformance
    \/ \E p \in UpdatePrices : Len(completed_signals) < MaxCompleted /\ CompleteSignal(1, p)
    \/ \E t \in MetricsTimes : AdvanceClock(t)

SpecMetrics == InitMetrics /\ [][NextMetrics]_vars

----------------------------------------------------------------------------
(* SpecEndToEnd: the run of test_signal_integration: a fresh RealtimeAnalyzer, *)
(* a subscriber to all signals, then 20 ticks, each about 2% of the first      *)
(* price lower than the one before, stamped with the clock's time              *)

EndToEndTicks == 20     \* for i in range(20)
base_price == 50000     \* base_price = 50000

VaryingTicks == {5, 10, 15, 20}
\* the n-th tick's drop from the tick before it: base_price * 0.02, or a bit less
DropSteps(n) == IF n \in VaryingTicks THEN {1000, 980} ELSE {1000}

EndToEndTickSet(n) ==
    IF n = 1
    THEN { PriceData(<<base_price>>, now, <<1000>>, <<(base_price * 102) \div 100>>,
                     <<(base_price * 98) \div 100>>) }
    ELSE { PriceData(<<LastClose - d>>, now, <<1000 + 100 * (n - 1)>>,
                     <<((LastClose - d) * 102) \div 100>>,
                     <<((LastClose - d) * 98) \div 100>>) : d \in DropSteps(n) }

NextEndToEnd ==
    \/ \E price_data \in EndToEndTickSet(n_ticks + 1), callback \in TickCallbacks :
          /\ n_ticks < EndToEndTicks
          /\ Subscriptions > 0
          /\ HandlePriceUpdate(price_data, callback)
    \/ \E callback \in SignalCallbacks :
          n_ticks = 0 /\ Subscriptions = 0 /\ SubscribeToSignals(callback, None)
    \/ n_ticks = 0 /\ InstallFilter(AnalyzerConfig)
    \/ \E t \in ClockTimes : AdvanceClock(t)

SpecEndToEnd == InitOrchestrator /\ [][NextEndToEnd]_vars

----------------------------------------------------------------------------
(* Claims about the PerformanceTracker, checked under SpecTracker *)

Terminal == {"SUCCESS", "FAILURE", "EXPIRED"}
CompletedIds == {completed_signals[i].signal_id : i \in DOMAIN completed_signals}
TimesCompleted(id) == Cardinality({i \in DOMAIN completed_signals : completed_signals[i].signal_id = id})

\* C1: every SignalResult in completed_signals has a terminal outcome (SUCCESS,
\* FAILURE or EXPIRED); no completed signal has outcome PENDING.
C1_CompletedAreTerminal ==
    \A i \in DOMAIN completed_signals : completed_signals[i].outcome \in Terminal

\* C2 (as claimed): every signal registered with add_signal is in exactly one of
\* active_signals and completed_signals, and is in completed_signals at most once.
C2_RegisteredInExactlyOne ==
    \A id \in SignalIds :
        n_adds[id] > 0 =>
            /\ Has(active_signals, id) # (id \in CompletedIds)
            /\ TimesCompleted(id) <= 1

\* the state part of C2 for the ids that were passed to add_signal exactly once
C2_OnceRegisteredInExactlyOne ==
    \A id \in SignalIds :
        n_adds[id] = 1 =>
            /\ Has(active_signals, id) # (id \in CompletedIds)
            /\ TimesCompleted(id) <= 1

\* the step part of C2: what is completed stays completed, unchanged, and an id
\* registered once that is completed is not active afterwards
C2_CompletedIsFinal ==
    /\ SubSeq(completed_signals', 1, Len(completed_signals)) = completed_signals
    /\ \A id \in SignalIds :
           (n_adds'[id] = 1 /\ id \in CompletedIds) => ~Has(active_signals', id)

\* C2 (amended): every signal registered with add_signal under an id that is
\* passed to add_signal only once is in exactly one of active_signals and
\* completed_signals; it is moved to completed_signals at most once, and once
\* there it is never active again and its record (its outcome) never changes.
C2_OnceRegistered == [](C2_OnceRegisteredInExactlyOne) /\ [][C2_CompletedIsFinal]_vars

C2_Witness ==
    /\ n_adds[1] = 1 /\ n_adds[2] = 1
    /\ Has(active_signals, 1) /\ ~Has(active_signals, 2)
    /\ 2 \in CompletedIds /\ 1 \notin CompletedIds

\* what the claim says of a signal completed at price p
C4_CompletedAt(signal, p, done) ==
    LET e == signal.entry_price
        ret == IF signal.type = "BUY" THEN <<(p - e) * 100, e>> ELSE <<(e - p) * 100, e>>
    IN /\ done.signal_id = signal.signal_id
       /\ done.exit_price = <<p>>
       /\ done.return_pct # None /\ REq(done.return_pct, ret)
       /\ (ret[1] * 2 >= ret[2]) => done.outcome = "SUCCESS"
       /\ (ret[1] <= -ret[2]) => done.outcome = "FAILURE"

C4_Step ==
    \A id \in SignalIds, p \in UpdatePrices :
        (Has(active_signals, id) /\ (UpdateSignal(id, p) \/ CompleteSignal(id, p))) =>
            LET signal == Get(active_signals, id)
            IN /\ ~Has(active_signals', id) =>
                    /\ Len(completed_signals') = Len(completed_signals) + 1
                    /\ SubSeq(completed_signals', 1, Len(completed_signals)) = completed_signals
                    /\ C4_CompletedAt(signal, p, completed_signals'[Len(completed_signals')])
               /\ CompleteSignal(id, p) => ~Has(active_signals', id)
               /\ (signal.type = "BUY" /\ signal.entry_price = 100 /\ p \in {98, 105}) =>
                    ~Has(active_signals', id)

\* C4: whenever update_signal or complete_signal completes an active signal at
\* price p, the signal leaves active_signals and is appended to
\* completed_signals with exit_price = p, return_pct computed from p, outcome
\* SUCCESS if return_pct >= 0.5 and FAILURE if return_pct <= -1.0; a BUY entered
\* at 100 is completed by an update at 105 (SUCCESS) and at 98 (FAILURE).
C4_CompletionEffect == [][C4_Step]_vars

C4_Witness ==
    /\ \E i \in DOMAIN completed_signals :
          LET r == completed_signals[i]
          IN r.type = "BUY" /\ r.entry_price = 100 /\ r.exit_price = <<105>> /\ r.outcome = "SUCCESS"
    /\ \E i \in DOMAIN completed_signals :
          LET r == completed_signals[i]
          IN r.type = "BUY" /\ r.entry_price = 100 /\ r.exit_price = <<98>> /\ r.outcome = "FAILURE"

----------------------------------------------------------------------------
(* Claims about the SignalFilter, checked under SpecFilter *)

Abs(x) == IF x < 0 THEN -x ELSE x
SameKey(a, b) == a[1] = b[1] /\ a[2] = b[2]
Verdict(signal) == filter_signal(config, last_signal_time, recent_signals, signal)
\* last_signal_time without the entries of the keys other than k
OnlyKey(lst, k) == [x \in (DOMAIN lst) \cap {k} |-> lst[x]]

\* C5: any two accepted signals that share (indicator, direction) have
\* timestamps at least cooldown_period apart; a signal is rejected when a signal
\* with its key was accepted less than cooldown_period seconds before it; the
\* entries of other keys neither change the verdict nor are changed by the call.
C5_Cooldown ==
    /\ \A a \in accepted, b \in accepted :
          (SameKey(a, b) /\ a # b) => Abs(a[3] - b[3]) >= config.cooldown_period
    /\ \A s \in FilterInputs :
          /\ (\E a \in accepted :
                 /\ SameKey(a, Occurrence(s))
                 /\ s.timestamp - a[3] >= 0
                 /\ s.timestamp - a[3] < config.cooldown_period)
             => ~Verdict(s).result
          /\ Verdict(s).result
               = filter_signal(config, OnlyKey(last_signal_time, CooldownKey(s)),
                               recent_signals, s).result
          /\ \A k \in (DOMAIN Verdict(s).last_signal_time) \ {CooldownKey(s)} :
                 k \in DOMAIN last_signal_time
                 /\ Verdict(s).last_signal_time[k] = last_signal_time[k]

C5_Witness ==
    /\ config.cooldown_period = 300
    /\ {<<"RSI", "BUY", 0>>, <<"RSI", "BUY", 301>>, <<"RSI", "SELL", 1>>} \subseteq accepted
    /\ ~Verdict(Signal("BUY", "RSI", <<8, 10>>, 301)).result

\* C6: the cooldown clock of a key restarts only when a signal with that key is
\* accepted (the checks run in the order strength, allow-list, cooldown,
\* confirmations, so a rejected signal leaves every last-seen time unchanged):
\* every last-seen time is the timestamp of an accepted signal with that key.
C6_ClockRestartsOnlyOnAccept ==
    \A k \in DOMAIN last_signal_time : <<k[1], k[2], last_signal_time[k]>> \in accepted

\* C8: filter_signal returns True only for signals whose strength >= min_strength
\* and whose indicator is on the allow-list when there is one; with no allow-list
\* the allow-list check passes for every indicator; a fresh filter with
\* min_strength 0.7 accepts a strength-0.8 signal and rejects a strength-0.3 one.
C8_StrengthAndAllowList ==
    /\ \A s \in FilterInputs :
          /\ Verdict(s).result =>
                /\ s.strength[1] * config.min_strength[2] >= config.min_strength[1] * s.strength[2]
                /\ config.allowed_indicators # None => s.indicator \in config.allowed_indicators[1]
          /\ config.allowed_indicators = None => _check_indicator_allowed(config, s)
    /\ (config.min_strength = <<7, 10>> /\ last_signal_time = <<>>) =>
          /\ Verdict(Signal("BUY", "RSI", <<8, 10>>, 0)).result
          /\ ~Verdict(Signal("BUY", "RSI", <<3, 10>>, 0)).result

C8_Witness ==
    /\ config.min_strength = <<7, 10>> /\ config.allowed_indicators = None
    /\ <<"BB", "BUY", 0>> \in accepted
    /\ <<"RSI", "BUY", 301>> \in accepted

----------------------------------------------------------------------------
(* Claims about the confirmation check, checked under SpecConfirm *)

ConfirmCandidates ==
    {Signal(ty, ind, <<8, 10>>, ts) :
        ty \in {"BUY", "SELL"}, ind \in {"RSI", "MACD"}, ts \in {0, 1, 200, 400, 701}}

\* the candidate passes the strength, allow-list and cooldown checks
PassesFirstThree(s) ==
    /\ s.strength[1] * config.min_strength[2] >= config.min_strength[1] * s.strength[2]
    /\ config.allowed_indicators # None => s.indicator \in config.allowed_indicators[1]
    /\ ~(/\ CooldownKey(s) \in DOMAIN last_signal_time
         /\ s.timestamp - last_signal_time[CooldownKey(s)] < config.cooldown_period)

\* how many of the last 10 recorded signals confirm the candidate
Confirming(s) ==
    LET n == Len(recorded)
        last10 == {i \in 1..n : i > n - 10}
    IN Cardinality({i \in last10 :
           /\ recorded[i].type = s.type
           /\ recorded[i].indicator # s.indicator
           /\ s.timestamp - recorded[i].timestamp <= 300})

C7_Rule(s) ==
    PassesFirstThree(s) =>
        (Verdict(s).result <=>
            (config.required_confirmations <= 1
             \/ Confirming(s) >= config.required_confirmations - 1))

\* signals were recorded in timestamp order and the candidate is not earlier than any
InTimestampOrder(s) ==
    /\ \A i \in DOMAIN recorded : recorded[i].timestamp <= s.timestamp
    /\ \A i \in DOMAIN recorded, j \in DOMAIN recorded :
          i < j => recorded[i].timestamp <= recorded[j].timestamp

\* C7 (as claimed): a signal that passes the strength, allow-list and cooldown
\* checks is accepted iff required_confirmations <= 1 or at least
\* required_confirmations - 1 of the last 10 recorded signals have its direction,
\* another indicator and a timestamp at most 300 s before its own.
C7_ConfirmationRule == \A s \in ConfirmCandidates : C7_Rule(s)

\* C7 (amended): the same, for signals recorded and filtered in timestamp order;
\* with no recorded signal and k >= 2 a first BUY is rejected.
C7_ConfirmationRuleInOrder ==
    /\ \A s \in ConfirmCandidates : InTimestampOrder(s) => C7_Rule(s)
    /\ (config.required_confirmations >= 2 /\ recorded = <<>>) =>
          \A s \in ConfirmCandidates : ~Verdict(s).result

C7_Witness ==
    /\ config.required_confirmations = 2
    /\ Len(recorded) > 0 /\ recorded[1] = Signal("BUY", "MACD", <<8, 10>>, 0)
    /\ <<"RSI", "BUY", 1>> \in accepted

----------------------------------------------------------------------------
(* Claims about the observation buffer, checked under SpecBuffer *)

\* C3: after any sequence of ticks, raising ones included, the buffer holds at
\* most buffer_size observations; once more than buffer_size observations were
\* appended it holds exactly buffer_size, the last buffer_size appended ones in
\* arrival order
C3_BufferIsLastAppended ==
    /\ Len(data_buffer) <= buffer_size
    /\ Len(appended) > buffer_size =>
          /\ Len(data_buffer) = buffer_size
          /\ \A i \in 1..buffer_size :
                data_buffer[i] = appended[Len(appended) - buffer_size + i]

\* more than buffer_size ticks were appended and one tick's processing raised
C3_Witness ==
    /\ Len(appended) > buffer_size
    /\ n_raised > 0
    /\ data_buffer[1].timestamp > 1
    /\ C3_BufferIsLastAppended

----------------------------------------------------------------------------
(* Claims about the orchestrator, checked under Spec *)

\* the ids the tracker knows
TrackedIds == Keys(active_signals) \cup CompletedIds

\* the signals the tick of this step generated, from the row it appended and
\* the indicator values it stored
GeneratedInStep ==
    IF appended' # appended /\ Len(data_buffer') >= signal_min_rows
    THEN LET row == appended'[Len(appended')]
         IN generate_signals([timestamp |-> row.timestamp, close |-> row.close,
                              high |-> row.high, low |-> row.low, volume |-> row.volume,
                              rsi |-> indicators'.rsi, macd |-> indicators'.macd,
                              macd_signal |-> indicators'.macd_signal])
    ELSE <<>>

\* the subscriber calls of this step
DeliveredInStep == SubSeq(delivered', Len(delivered) + 1, Len(delivered'))

\* the installed filter's verdict on a signal of this step's tick (the signals
\* of one tick come from different indicators, so have different cooldown keys)
AcceptedInStep(signal) ==
    filter_signal(config, last_signal_time, recent_signals, signal).result

C9_Step ==
    /\ Len(delivered') >= Len(delivered)
    /\ SubSeq(delivered', 1, Len(delivered)) = delivered
    /\ \A i \in DOMAIN DeliveredInStep :
          LET d == DeliveredInStep[i]
          IN /\ \E j \in DOMAIN GeneratedInStep : GeneratedInStep[j] = d.signal
             /\ AcceptedInStep(d.signal)
             /\ RGe(d.signal.strength, config.min_strength)
             /\ d.registered
             /\ d.entry_price = <<appended'[Len(appended')].close>>
             /\ d.signal_id \notin TrackedIds
             /\ \A k \in DOMAIN DeliveredInStep :
                   DeliveredInStep[k].signal_id = d.signal_id => DeliveredInStep[k].signal = d.signal
             /\ Has(active_signals', d.signal_id)
             /\ Get(active_signals', d.signal_id).indicator = d.signal.indicator
             /\ Get(active_signals', d.signal_id).type = d.signal.type
    /\ \A j \in DOMAIN GeneratedInStep :
          ~AcceptedInStep(GeneratedInStep[j]) =>
             /\ \A i \in DOMAIN DeliveredInStep : DeliveredInStep[i].signal # GeneratedInStep[j]
             /\ \A id \in Keys(active_signals') \ TrackedIds :
                   Get(active_signals', id).indicator # GeneratedInStep[j].indicator
    /\ GeneratedInStep = <<>> => Keys(active_signals') \subseteq Keys(active_signals)

\* C9: every signal pushed to a signal subscriber was accepted by the installed
\* filter (so its strength is at least min_strength) and was registered in the
\* tracker's active set before the push, under a fresh id and with the tick's
\* price as entry price; a rejected signal is neither registered nor pushed
C9_OnlyAcceptedArePushed == [][C9_Step]_vars

\* the last tick generated an RSI signal that was accepted, registered and
\* pushed, and a MACD signal that was rejected and not pushed
C9_Witness ==
    /\ Len(data_buffer) >= signal_min_rows
    /\ indicators # <<>>
    /\ indicators.macd = -1
    /\ \E i \in DOMAIN delivered :
          /\ delivered[i].signal.indicator = "RSI"
          /\ delivered[i].registered
          /\ Has(active_signals, delivered[i].signal_id)
    /\ \A i \in DOMAIN delivered : delivered[i].signal.indicator # "MACD"
    /\ \A i \in DOMAIN active_signals : active_signals[i].indicator # "MACD"
    /\ \A i \in DOMAIN completed_signals : completed_signals[i].indicator # "MACD"

----------------------------------------------------------------------------
(* Claims about start and stop, checked under SpecStream *)

StopReturned == stop_call.pc = "done"

\* a listener that will take the next message of an open connection
ListenerAlive(i) ==
    \/ listeners[i].pc = "recv" /\ connections[listeners[i].conn] = "open"
    \/ /\ listeners[i].pc \in {"created", "sleeping"}
       /\ KeepsListening(collector_running, ws)
       /\ connections[ws[1]] = "open"

\* C10: once stop() has returned, no further tick is processed and the stream
\* listener stays stopped, whatever was in flight when stop() was called: the
\* collector's running flag stays false and no listener task is left that
\* will take the next message of an open connection
C10_StopIsFinal ==
    StopReturned =>
        /\ ~collector_running
        /\ \A i \in DOMAIN listeners : ~ListenerAlive(i)

----------------------------------------------------------------------------
(* Claims about subscriber failures, checked under SpecBuffer *)

\* C11: an exception raised by a callback invoked during the processing of a
\* tick is caught and logged, it does not come out of handle_price_update: a
\* call whose tick was well formed (its row was appended) does not raise
C11_TickDoesNotRaise == (appended' # appended) => (n_raised' = n_raised)

C11_CallbackFailuresAreCaught == [][C11_TickDoesNotRaise]_vars

----------------------------------------------------------------------------
(* Claims about the serialization of ticks, checked under SpecStream *)

\* the listener tasks that have not returned
RunningListeners == {i \in DOMAIN listeners : listeners[i].pc # "done"}

\* C12: tick handling is serialized per symbol: at any time at most one
\* stream-listener loop is running for the analyzer's collector, also after a
\* disconnect followed by a reconnect
C12_OneListenerLoop == Cardinality(RunningListeners) <= 1

----------------------------------------------------------------------------
(* Claims about the warm-up, checked under SpecWarmUp *)

\* the signals the generator gives for the snapshot of this step's tick
SnapshotSignalsInStep ==
    LET row == appended'[Len(appended')]
    IN generate_signals([timestamp |-> row.timestamp, close |-> row.close,
                         high |-> row.high, low |-> row.low, volume |-> row.volume,
                         rsi |-> indicators'.rsi, macd |-> indicators'.macd,
                         macd_signal |-> indicators'.macd_signal])

\* the callbacks subscribed for a signal before this step
SubscribedFor(signal) ==
    (IF signal.indicator \in DOMAIN signal_subscribers
     THEN signal_subscribers[signal.indicator] ELSE <<>>) \o signal_subscribers["ALL"]

\* nothing is registered and nobody is notified in this step
NothingPushedInStep ==
    /\ DeliveredInStep = <<>>
    /\ Keys(active_signals') \subseteq Keys(active_signals)

\* an accepted signal of this step's tick is registered and its subscribers are called
PushedInStep(signal) ==
    /\ \E id \in Keys(active_signals') \ TrackedIds :
          /\ Get(active_signals', id).indicator = signal.indicator
          /\ Get(active_signals', id).type = signal.type
          /\ Get(active_signals', id).entry_price = appended'[Len(appended')].close
    /\ \A k \in DOMAIN SubscribedFor(signal) :
          \E i \in DOMAIN DeliveredInStep :
             /\ DeliveredInStep[i].callback = SubscribedFor(signal)[k]
             /\ DeliveredInStep[i].signal = signal

\* a tick with rows as the threshold for generating signals
C13_StepAt(rows) ==
    (n_ticks' = n_ticks + 1) =>
       IF appended' # appended /\ Len(data_buffer') >= indicator_min_rows
       THEN /\ indicators' # <<>>
            /\ indicators'.rsi = calculate_rsi(Closes(data_buffer'))
            /\ <<indicators'.macd, indicators'.macd_signal>> \in calculate_macd(Closes(data_buffer'))
            /\ IF Len(data_buffer') >= rows
               THEN /\ \A j \in DOMAIN SnapshotSignalsInStep :
                          AcceptedInStep(SnapshotSignalsInStep[j]) =>
                             PushedInStep(SnapshotSignalsInStep[j])
                    /\ \A i \in DOMAIN DeliveredInStep :
                          \E j \in DOMAIN SnapshotSignalsInStep :
                             /\ SnapshotSignalsInStep[j] = DeliveredInStep[i].signal
                             /\ AcceptedInStep(SnapshotSignalsInStep[j])
               ELSE NothingPushedInStep
       ELSE indicators' = indicators /\ NothingPushedInStep

\* C13 as stated: every tick that leaves the buffer with at least 14 rows
\* recomputes the snapshot, runs the generator and the filter on it, registers
\* the accepted signals and notifies the subscribers; a tick that leaves it
\* with fewer rows computes, generates and notifies nothing
C13_FromFourteenRows == [][C13_StepAt(indicator_min_rows)]_vars

\* C13, amended: the snapshot is recomputed from 14 rows on, the generator and
\* the filter run, and accepted signals are registered and pushed, from 20
\* rows on; with 14 to 19 rows nothing is generated, registered or pushed
C13_FromTwentyRows == [][C13_StepAt(signal_min_rows)]_vars

\* the 15th tick moved the price (an RSI signal's snapshot) and pushed nothing,
\* the 20th tick's signal was registered and pushed
C13_Witness ==
    /\ Len(data_buffer) >= signal_min_rows
    /\ data_buffer[15].close # data_buffer[14].close
    /\ delivered # <<>>
    /\ \A i \in DOMAIN delivered : delivered[i].registered
    /\ Len(active_signals) + Len(completed_signals) = 1

----------------------------------------------------------------------------
(* Claims about the end-to-end run, checked under SpecEndToEnd *)

\* C14: after 20 strictly decreasing ticks through a fresh orchestrator with
\* the lenient filter (min_strength 0.3, one confirmation, cooldown 1 s, all
\* four indicators allowed) a signal subscriber has received at least one
\* signal, at least one of them a BUY, and every signal it received has a
\* strength of at least 0.3 and the type BUY or SELL
C14_EndToEnd ==
    n_ticks = EndToEndTicks =>
        /\ delivered # <<>>
        /\ \E i \in DOMAIN delivered : delivered[i].signal.type = "BUY"
        /\ \A i \in DOMAIN delivered :
              /\ RGe(delivered[i].signal.strength, <<3, 10>>)
              /\ delivered[i].signal.type \in {"BUY", "SELL"}

\* the 20th tick's RSI is 0: a BUY of strength 1 was pushed
C14_Witness ==
    /\ n_ticks = EndToEndTicks
    /\ Len(data_buffer) = EndToEndTicks
    /\ \A i \in 1..(Len(data_buffer) - 1) : data_buffer[i + 1].close < data_buffer[i].close
    /\ indicators.rsi = <<0, 14000>>
    /\ \E i \in DOMAIN delivered :
          /\ delivered[i].signal = Signal("BUY", "RSI", One, now)
          /\ delivered[i].registered

----------------------------------------------------------------------------
(* Claims about stop-loss, take-profit and returns, checked under SpecLevels *)

\* the signal update_signal(1, p) has just moved to completed_signals
LastCompleted == completed_signals'[Len(completed_signals')]
MovedToCompleted ==
    /\ ~Has(active_signals', 1)
    /\ Len(completed_signals') = Len(completed_signals) + 1
    /\ LastCompleted.signal_id = 1

C15_Step ==
    \A p \in LevelUpdatePrices :
        (/\ Has(active_signals, 1)
         /\ Get(active_signals, 1).type = "BUY"
         /\ Truthy(Get(active_signals, 1).stop_loss)
         /\ p <= Get(active_signals, 1).stop_loss[1]
         /\ UpdateSignal(1, p))
        => (MovedToCompleted /\ LastCompleted.outcome = "FAILURE")

\* C15: update_signal at a price at or below the stop-loss of an active BUY
\* signal removes it from active_signals and appends it to completed_signals
\* with outcome FAILURE
C15_StopLossFails == [][C15_Step]_vars

C16_Step ==
    \A p \in LevelUpdatePrices :
        (/\ Has(active_signals, 1)
         /\ Get(active_signals, 1).type = "BUY"
         /\ Truthy(Get(active_signals, 1).take_profit)
         /\ p >= Get(active_signals, 1).take_profit[1]
         /\ UpdateSignal(1, p))
        => (MovedToCompleted /\ LastCompleted.outcome = "SUCCESS")

\* C16: update_signal at a price at or above the take-profit of an active BUY
\* signal removes it from active_signals and appends it to completed_signals
\* with outcome SUCCESS
C16_TakeProfitSucceeds == [][C16_Step]_vars

C19_Step ==
    \A p \in LevelUpdatePrices :
        (Has(active_signals, 1) /\ UpdateSignal(1, p)) =>
            LET signal == Get(active_signals, 1)
                e == signal.entry_price
                buy == _calculate_return("BUY", e, p)
                sell == _calculate_return("SELL", e, p)
            IN /\ REq(buy, <<(p - e) * 100, e>>)
               /\ REq(sell, <<(e - p) * 100, e>>)
               /\ REq(sell, <<-buy[1], buy[2]>>)
               /\ MovedToCompleted =>
                    /\ LastCompleted.return_pct # None
                    /\ REq(LastCompleted.return_pct, IF signal.type = "BUY" THEN buy ELSE sell)
               /\ (signal.type = "SELL" /\ e = 100 /\ p = 95) =>
                    /\ MovedToCompleted
                    /\ REq(LastCompleted.return_pct, <<5, 1>>)
                    /\ LastCompleted.outcome = "SUCCESS"

\* C19: the return of a BUY is (current - entry) / entry * 100, that of a SELL
\* (entry - current) / entry * 100, the negation of the BUY return for the same
\* prices; a SELL entered at 100 and updated at 95 is completed with
\* return_pct 5.0 and outcome SUCCESS
C19_Returns == [][C19_Step]_vars

C19_Witness ==
    \E i \in DOMAIN completed_signals :
        LET r == completed_signals[i]
        IN /\ r.type = "SELL" /\ r.entry_price = 100 /\ r.exit_price = <<95>>
           /\ r.return_pct = <<500, 100>> /\ r.outcome = "SUCCESS"

----------------------------------------------------------------------------
(* Claims about expiry and unknown ids, checked under SpecTracker *)

\* the active signals that are at least signal_timeout old
Overdue == {id \in Keys(active_signals) :
               now - Get(active_signals, id).entry_time >= signal_timeout}

\* what completed_signals gained in this step
NewlyCompleted ==
    SubSeq(completed_signals', Len(completed_signals) + 1, Len(completed_signals'))

\* what a call of cleanup_expired_signals in this state does and returns
C17_Call ==
    LET r == cleanup_expired_signals(active_signals, completed_signals, now)
        moved == SubSeq(r.completed, Len(completed_signals) + 1, Len(r.completed))
    IN /\ Keys(r.active) = Keys(active_signals) \ Overdue
       /\ \A id \in Keys(r.active) :
             /\ Get(r.active, id) = Get(active_signals, id)
             /\ Get(r.active, id).outcome = "PENDING"
       /\ SubSeq(r.completed, 1, Len(completed_signals)) = completed_signals
       /\ Len(moved) = Cardinality(Overdue)
       /\ \A id \in Overdue :
             \E i \in DOMAIN moved :
                 moved[i] = [Get(active_signals, id) EXCEPT !.outcome = "EXPIRED"]
       /\ r.result = moved

C17_CleanupStep ==
    CleanupExpiredSignals =>
        /\ Keys(active_signals') = Keys(active_signals) \ Overdue
        /\ \A id \in Keys(active_signals') :
              /\ Get(active_signals', id) = Get(active_signals, id)
              /\ Get(active_signals', id).outcome = "PENDING"
        /\ SubSeq(completed_signals', 1, Len(completed_signals)) = completed_signals
        /\ Len(NewlyCompleted) = Cardinality(Overdue)
        /\ \A id \in Overdue :
              \E i \in DOMAIN NewlyCompleted :
                  NewlyCompleted[i] = [Get(active_signals, id) EXCEPT !.outcome = "EXPIRED"]
        /\ cleanup_expired_signals(active_signals, completed_signals, now).result = NewlyCompleted

C17_OtherStep ==
    ~CleanupExpiredSignals =>
        /\ \A i \in DOMAIN NewlyCompleted : NewlyCompleted[i].outcome # "EXPIRED"
        /\ \A i \in DOMAIN active_signals' : active_signals'[i].outcome # "EXPIRED"
        /\ \A i \in DOMAIN completed_signals :
              i \in DOMAIN completed_signals' /\ completed_signals'[i] = completed_signals[i]

\* C17: cleanup_expired_signals moves exactly the active signals that are at
\* least signal_timeout old to completed_signals with outcome EXPIRED and
\* returns them; the younger ones stay active and PENDING; no other operation
\* gives a signal the outcome EXPIRED
C17_Expiry == [](C17_Call) /\ [][C17_CleanupStep /\ C17_OtherStep]_vars

\* an overdue signal has expired while a younger one stayed active
C17_Witness ==
    /\ \E i \in DOMAIN completed_signals :
          /\ completed_signals[i].outcome = "EXPIRED"
          /\ now - completed_signals[i].entry_time >= signal_timeout
    /\ \E i \in DOMAIN active_signals :
          /\ active_signals[i].outcome = "PENDING"
          /\ now - active_signals[i].entry_time < signal_timeout

\* the ids update_signal and complete_signal do not know
Unknown == SignalIds \ Keys(active_signals)

C18_Calls ==
    \A id \in Unknown, p \in UpdatePrices :
        /\ update_signal(active_signals, completed_signals, id, p, now)
             = [active |-> active_signals, completed |-> completed_signals, result |-> None]
        /\ complete_signal(active_signals, completed_signals, id, p, now)
             = [active |-> active_signals, completed |-> completed_signals, result |-> None]

C18_Step ==
    \A id \in Unknown, p \in UpdatePrices :
        (UpdateSignal(id, p) \/ CompleteSignal(id, p)) =>
            (active_signals' = active_signals /\ completed_signals' = completed_signals)

\* C18: update_signal and complete_signal with an id that is not in
\* active_signals (never registered, or already completed) return None and
\* leave active_signals and completed_signals as they were
C18_UnknownIds == [](C18_Calls) /\ [][C18_Step]_vars

\* one id was completed and the other never registered, with a signal completed
C18_Witness ==
    /\ n_adds[1] = 1 /\ n_adds[2] = 0
    /\ Unknown = SignalIds
    /\ 1 \in CompletedIds

----------------------------------------------------------------------------
(* Claims about the SignalGenerator, checked under SpecGenerator *)

\* C20: every Signal generate_signals returns, whatever the strategy and the
\* values of the row, has a strength between 0 and 1 and the type BUY or SELL
C20_StrengthInUnitInterval ==
    generated_signals # None =>
        \A i \in DOMAIN generated_signals[1] :
            /\ RGe(generated_signals[1][i].strength, <<0, 1>>)
            /\ RLe(generated_signals[1][i].strength, One)
            /\ generated_signals[1][i].type \in {"BUY", "SELL"}


\* the signals of one strategy in what generate_signals returned
Called == generated_signals # None
Returned == generated_signals[1]
From(indicator) == SelectSeq(Returned, LAMBDA s : s.indicator = indicator)

\* C21: a row with rsi >= 70 gives exactly one RSI signal, a SELL of strength
\* min((rsi - 70) / 15, 1); a row with rsi <= 30 exactly one, a BUY of strength
\* min((30 - rsi) / 15, 1); a row with 30 < rsi < 70 gives no RSI signal; for
\* rsi = 85 the one RSI signal is a SELL of strength above 0.8
C21_RsiRule ==
    (Called /\ "rsi" \in DOMAIN snapshot) =>
        LET rsi == snapshot.rsi
            found == From("RSI")
        IN IF RGe(rsi, <<70, 1>>)
           THEN /\ Len(found) = 1
                /\ found[1].type = "SELL"
                /\ REq(found[1].strength, RMin(<<rsi[1] - 70 * rsi[2], 15 * rsi[2]>>, One))
                /\ REq(rsi, <<85, 1>>) => RLt(<<8, 10>>, found[1].strength)
           ELSE IF RLe(rsi, <<30, 1>>)
           THEN /\ Len(found) = 1
                /\ found[1].type = "BUY"
                /\ REq(found[1].strength, RMin(<<30 * rsi[2] - rsi[1], 15 * rsi[2]>>, One))
           ELSE found = <<>>

C21_Witness ==
    /\ Called
    /\ "rsi" \in DOMAIN snapshot
    /\ snapshot.rsi = <<85, 1>>
    /\ Len(From("RSI")) = 1
    /\ From("RSI")[1].type = "SELL"
    /\ REq(From("RSI")[1].strength, One)


\* C22: a row with macd > macd_signal gives exactly one MACD signal, a BUY; a
\* row with macd < macd_signal exactly one, a SELL; a row with macd =
\* macd_signal gives no MACD signal
C22_MacdDirection ==
    (Called /\ {"macd", "macd_signal"} \subseteq DOMAIN snapshot) =>
        LET found == From("MACD")
        IN IF snapshot.macd > snapshot.macd_signal
           THEN Len(found) = 1 /\ found[1].type = "BUY"
           ELSE IF snapshot.macd < snapshot.macd_signal
           THEN Len(found) = 1 /\ found[1].type = "SELL"
           ELSE found = <<>>

C22_Witness ==
    /\ Called
    /\ {"macd", "macd_signal"} \subseteq DOMAIN snapshot
    /\ snapshot.macd = 60 /\ snapshot.macd_signal = 50
    /\ Len(From("MACD")) = 1
    /\ From("MACD")[1].type = "BUY"

\* C23: the strength of a MACD signal is min(|macd - macd_signal| / (price *
\* 0.001), 1), price being the row's close
C23_MacdStrength ==
    (Called /\ {"macd", "macd_signal", "close"} \subseteq DOMAIN snapshot) =>
        \A i \in DOMAIN From("MACD") :
            REq(From("MACD")[i].strength,
                RMin(<<Abs(snapshot.macd - snapshot.macd_signal) * 1000, snapshot.close>>, One))

\* a rational in lowest terms
RECURSIVE Gcd(_, _)
Gcd(a, b) == IF b = 0 THEN a ELSE Gcd(b, a % b)
Lowest(r) == LET g == Gcd(Abs(r[1]), r[2]) IN <<r[1] \div g, r[2] \div g>>

\* C24: a row with close < bb_lower gives exactly one BB signal, a BUY of
\* strength min((lower - close) / (lower * 0.02), 1); a row with close >
\* bb_upper exactly one, a SELL of strength min((close - upper) / (upper *
\* 0.02), 1); any other row gives no BB signal; close 47500 under bb_lower
\* 48000 gives a BB BUY
C24_BollingerRule ==
    (Called /\ {"bb_upper", "bb_lower", "close"} \subseteq DOMAIN snapshot) =>
        LET close == snapshot.close
            upper == snapshot.bb_upper
            lower == snapshot.bb_lower
            found == From("BB")
        IN IF close < lower
           THEN /\ Len(found) = 1
                /\ found[1].type = "BUY"
                /\ Lowest(found[1].strength) = Lowest(RMin(<<(lower - close) * 100, 2 * lower>>, One))
           ELSE IF close > upper
           THEN /\ Len(found) = 1
                /\ found[1].type = "SELL"
                /\ Lowest(found[1].strength) = Lowest(RMin(<<(close - upper) * 100, 2 * upper>>, One))
           ELSE found = <<>>

C24_Witness ==
    /\ Called
    /\ {"bb_upper", "bb_lower", "close"} \subseteq DOMAIN snapshot
    /\ snapshot.close = 47500 /\ snapshot.bb_lower = 48000
    /\ Len(From("BB")) = 1
    /\ From("BB")[1].type = "BUY"
    /\ Lowest(From("BB")[1].strength) = <<25, 48>>

Largest(a, b) == IF a > b THEN a ELSE b
Smallest(a, b) == IF a < b THEN a ELSE b

\* C25: a row with stoch_k < 20 and stoch_d < 20 gives exactly one STOCH
\* signal, a BUY of strength (20 - max(k, d)) / 20; a row with both above 80
\* exactly one, a SELL of strength (min(k, d) - 80) / 20; any other row, one
\* with only one line beyond the level included, gives no STOCH signal
C25_StochasticRule ==
    (Called /\ {"stoch_k", "stoch_d"} \subseteq DOMAIN snapshot) =>
        LET k == snapshot.stoch_k
            d == snapshot.stoch_d
            found == From("STOCH")
        IN IF k < 20 /\ d < 20
           THEN /\ Len(found) = 1
                /\ found[1].type = "BUY"
                /\ REq(found[1].strength, <<20 - Largest(k, d), 20>>)
           ELSE IF k > 80 /\ d > 80
           THEN /\ Len(found) = 1
                /\ found[1].type = "SELL"
                /\ REq(found[1].strength, <<Smallest(k, d) - 80, 20>>)
           ELSE found = <<>>

\* only %K is below the level: nothing from the stochastic strategy
C25_Witness ==
    /\ Called
    /\ {"stoch_k", "stoch_d"} \subseteq DOMAIN snapshot
    /\ snapshot.stoch_k = 15 /\ snapshot.stoch_d = 50
    /\ From("STOCH") = <<>>

\* C26: generate_signals runs a strategy only if all the columns it requires
\* are in the row, returns at most one signal per strategy, and what one
\* strategy returns does not depend on the others: each strategy whose rule
\* the row satisfies contributes its signal
C26_StrategiesIndependent ==
    Called =>
        /\ \A i \in DOMAIN strategies :
              LET s == strategies[i]
                  found == From(s.indicator)
              IN /\ Len(found) <= 1
                 /\ IF s.required_columns \subseteq DOMAIN snapshot
                    THEN found = Strategy(s.indicator, snapshot)
                    ELSE found = <<>>
        /\ \A i \in DOMAIN Returned :
              \E j \in DOMAIN strategies : Returned[i].indicator = strategies[j].indicator

\* all four rules are satisfied at once
C26_Witness ==
    /\ Called
    /\ Len(Returned) = 4
    /\ \A i \in DOMAIN strategies : Len(From(strategies[i].indicator)) = 1

----------------------------------------------------------------------------
(* Claims about the performance query, checked under SpecMetrics *)

\* the completed signals whose entry_time is within the timeframe that ends now
InWindow(timeframe) ==
    {i \in DOMAIN completed_signals :
        timeframe = None \/ completed_signals[i].entry_time >= now - timeframe[1]}

OutcomesIn(timeframe, outcome) ==
    Cardinality({i \in InWindow(timeframe) : completed_signals[i].outcome = outcome})

\* C27 (checked on every call): get_performance_metrics reports total_signals = the number of completed
\* signals whose entry_time is within the timeframe (all of them without a
\* timeframe), success_count and failure_count = how many of those have outcome
\* SUCCESS and FAILURE, win_rate = success_count / (success_count +
\* failure_count), 0 when that sum is 0 (2/3 for two successes and a failure)
C27_StepFor(timeframes) ==
    \A timeframe \in timeframes :
        GetPerformanceMetrics(timeframe) =>
            LET r == metrics'[1].result
                wins == OutcomesIn(timeframe, "SUCCESS")
                losses == OutcomesIn(timeframe, "FAILURE")
            IN /\ r.total_signals = Cardinality(InWindow(timeframe))
               /\ r.success_count = wins
               /\ r.failure_count = losses
               /\ IF wins + losses = 0 THEN REq(r.win_rate, <<0, 1>>)
                  ELSE REq(r.win_rate, <<wins, wins + losses>>)

C27_MetricsCounts == [][C27_StepFor(Timeframes)]_vars

\* the same for the calls without a timeframe or with one that is not zero
C27_NonZeroTimeframes == [][C27_StepFor(Timeframes \ {<<0>>})]_vars

C28_Step ==
    \A timeframe \in Timeframes :
        GetPerformanceMetrics(timeframe) =>
            /\ active_signals' = active_signals
            /\ completed_signals' = completed_signals
            /\ metrics'[1].result =
                  get_performance_metrics(completed_signals', timeframe, now').result

\* C28: a call of get_performance_metrics (get_current_performance is one
\* without a timeframe) leaves active_signals, completed_signals and every
\* SignalResult in them as they were, and a second call right after it returns
\* the same counts
C28_QueryHasNoEffect == [][C28_Step]_vars

\* a query over the last day left out a signal entered two days ago and changed nothing
C28_Witness ==
    /\ metrics # None
    /\ metrics[1].timeframe = <<signal_timeout>>
    /\ metrics[1].at = now
    /\ metrics[1].result.total_signals = 2
    /\ Len(completed_signals) = 3
    /\ active_signals # <<>>


----------------------------------------------------------------------------
(* C29: delivery of stream tickers to the price subscribers                   *)

\* the callbacks subscribed for the analyzer's pair
PairCallbacks ==
    IF SubscriberKey(AnalyzerSymbol) \in DOMAIN collector_subscribers
    THEN collector_subscribers[SubscriberKey(AnalyzerSymbol)]
    ELSE <<>>

\* a ticker the validator accepts whose exchange symbol is the analyzer's pair
ValidPairTicker(ticker) ==
    /\ _process_price_data(ticker, now) # <<>>
    /\ SubscriberKey(ticker.s) = SubscriberKey(AnalyzerSymbol)

\* C29: after connect_realtime and subscribe_to_price_updates("BTC/USDT", cb),
\* a valid ticker of that pair (exchange symbol BTCUSDT) that a listener reads
\* from the stream results in cb being called with it: the callback is awaited
\* in the loop iteration that read the message, so the call is part of the
\* step that reads it
C29_TickerReachesCallback ==
    [][\A i \in DOMAIN listeners, ticker \in StreamTickers :
          (/\ ListenerMessage(i, ticker)
           /\ ValidPairTicker(ticker)
           /\ PairCallbacks # <<>>)
          => n_ticks' = n_ticks + 1]_vars


----------------------------------------------------------------------------
(* C30: the range of calculate_rsi                                            *)

Constant(closes) == \A i \in DOMAIN closes : closes[i] = closes[1]
StrictlyIncreasing(closes) == \A i \in 1..(Len(closes) - 1) : closes[i] < closes[i + 1]

\* a defined number (no NaN, no infinity) between 0 and 100
InRsiRange(r) == r[2] > 0 /\ 0 <= r[1] /\ r[1] <= 100 * r[2]

\* C30: calculate_rsi returns one value for every index of the close series,
\* each a defined number within [0, 100]; for a constant series every value is
\* 50, and for a strictly increasing series no value exceeds 100
C30_RsiRange ==
    rsi_series # None =>
        LET rsi == rsi_series[1]
        IN /\ DOMAIN rsi = DOMAIN technical_data
           /\ \A i \in DOMAIN rsi : InRsiRange(rsi[i])
           /\ Constant(technical_data) => \A i \in DOMAIN rsi : REq(rsi[i], <<50, 1>>)
           /\ StrictlyIncreasing(technical_data) =>
                  \A i \in DOMAIN rsi : RLe(rsi[i], <<100, 1>>)

\* a series with gains and losses in the window of its last value, which lies
\* strictly between 50 and 100
C30_Witness ==
    /\ rsi_series # None
    /\ Len(technical_data) > rsi_period + 1
    /\ LET last == rsi_series[1][Len(technical_data)]
       IN RLt(<<50, 1>>, last) /\ RLt(last, <<100, 1>>)

\* a constant series longer than the window: every value is the filled 50
C30_ConstantSeen ==
    /\ rsi_series # None
    /\ Len(technical_data) > rsi_period + 1
    /\ Constant(technical_data)


----------------------------------------------------------------------------
(* C31: the order of the Bollinger bands                                      *)

\* C31: calculate_bollinger_bands returns, for every index of the close
\* series, the first bb_period - 1 indexes (where the fills apply) included,
\* bands with upper >= middle >= lower
C31_BandOrder ==
    bands # None =>
        /\ DOMAIN bands[1] = DOMAIN technical_data
        /\ \A i \in DOMAIN bands[1] :
              /\ RGe(bands[1][i].upper, bands[1][i].middle)
              /\ RGe(bands[1][i].middle, bands[1][i].lower)

\* a series with indexes in the fill region and indexes with a full window
\* whose closes differ, so that the last bands are strictly apart
C31_Witness ==
    /\ bands # None
    /\ Len(technical_data) > bb_period
    /\ LET last == bands[1][Len(technical_data)]
       IN RLt(last.lower, last.middle) /\ RLt(last.middle, last.upper)
    /\ REq(bands[1][1].upper, <<technical_data[1] + std_dev, 1>>)


----------------------------------------------------------------------------
(* C32: the order of re-evaluation and registration within a tick             *)

IdsOf(signals) == {signals[i].signal_id : i \in DOMAIN signals}

\* the tracker's decision about an active signal at a price
Triggered(signal, price) ==
    _should_complete_signal(signal, price,
                            _calculate_return(signal.type, signal.entry_price, price), now)

\* every signal active before the tick has been evaluated at the tick's price:
\* completed at that price when a trigger holds, untouched otherwise
ReEvaluatedAt(price) ==
    \A i \in DOMAIN active_signals :
        LET signal == active_signals[i]
            id == signal.signal_id
        IN IF Triggered(signal, price)
           THEN /\ ~Has(active_signals', id)
                /\ \E j \in DOMAIN completed_signals' :
                      /\ completed_signals'[j].signal_id = id
                      /\ completed_signals'[j].exit_price = <<price>>
                      /\ completed_signals'[j].exit_time = <<now>>
           ELSE /\ Has(active_signals', id)
                /\ Get(active_signals', id) = signal
                /\ id \notin IdsOf(completed_signals')

\* every signal registered by the tick is active after it, as registered
NotEvaluatedAt(price) ==
    /\ \A i \in DOMAIN active_signals' :
          LET signal == active_signals'[i]
          IN ~Has(active_signals, signal.signal_id) =>
                 /\ signal.entry_price = price
                 /\ signal.entry_time = now
                 /\ signal.outcome = "PENDING"
                 /\ signal.exit_price = None
    /\ IdsOf(completed_signals') \subseteq IdsOf(completed_signals) \cup IdsOf(active_signals)

C32_Step ==
    \A price_data \in LiveTicks(LivePrices, MalformedLiveTicks), callback \in LiveCallbacks :
        (HandlePriceUpdate(price_data, callback) /\ price_data.price # None) =>
            /\ ReEvaluatedAt(price_data.price[1])
            /\ NotEvaluatedAt(price_data.price[1])

----------------------------------------------------------------------------
(* C33: completion by timeout                                                 *)

Newest(signals) == signals[Len(signals)]

TimedOut(signal) == now - signal.entry_time >= signal_timeout

\* an update_signal of an active signal that has timed out completes it at the
\* price of the call
C33_Step ==
    \A id \in SignalIds, p \in TimeoutUpdatePrices :
        (/\ UpdateSignal(id, p)
         /\ Has(active_signals, id)
         /\ TimedOut(Get(active_signals, id))) =>
            /\ ~Has(active_signals', id)
            /\ Len(completed_signals') = Len(completed_signals) + 1
            /\ LastCompleted.signal_id = id
            /\ LastCompleted.exit_price = <<p>>
            /\ LastCompleted.exit_time = <<now>>

\* whatever update_signal would be called with, a timed-out signal is completed
C33_Call ==
    \A i \in DOMAIN active_signals, p \in TimeoutUpdatePrices :
        TimedOut(active_signals[i]) =>
            ~Has(update_signal(active_signals, completed_signals,
                               active_signals[i].signal_id, p, now).active,
                 active_signals[i].signal_id)

----------------------------------------------------------------------------
(* C34: an update that triggers nothing                                       *)

\* no trigger holds for the signal at price p: p is above its stop-loss and
\* below its take-profit, its age is below signal_timeout and its return is
\* strictly between max_loss_threshold and min_profit_threshold
NoTrigger(signal, p) ==
    LET ret == IF signal.type = "BUY"
               THEN <<(p - signal.entry_price) * 100, signal.entry_price>>
               ELSE <<(signal.entry_price - p) * 100, signal.entry_price>>
    IN /\ signal.stop_loss # None => p > signal.stop_loss[1]
       /\ signal.take_profit # None => p < signal.take_profit[1]
       /\ now - signal.entry_time < signal_timeout
       /\ RLt(max_loss_threshold, ret)
       /\ RLt(ret, min_profit_threshold)

Untouched(signal) ==
    /\ signal.outcome = "PENDING"
    /\ signal.exit_price = None
    /\ signal.exit_time = None
    /\ signal.return_pct = None

\* update_signal returns the signal and both sets as they are
C34_Call ==
    \A i \in DOMAIN active_signals, p \in TimeoutUpdatePrices :
        NoTrigger(active_signals[i], p) =>
            /\ Untouched(active_signals[i])
            /\ update_signal(active_signals, completed_signals,
                             active_signals[i].signal_id, p, now)
                 = [active |-> active_signals, completed |-> completed_signals,
                    result |-> <<active_signals[i]>>]

C34_Step ==
    \A id \in SignalIds, p \in TimeoutUpdatePrices :
        (/\ UpdateSignal(id, p)
         /\ Has(active_signals, id)
         /\ NoTrigger(Get(active_signals, id), p)) =>
            (active_signals' = active_signals /\ completed_signals' = completed_signals)

\* C34: update_signal on an active signal for which no trigger holds returns
\* the signal and changes nothing: the signal stays active with outcome
\* PENDING and no exit_price, exit_time or return_pct, and the completed set
\* is unchanged
C34_NoTriggerNoChange == [](C34_Call) /\ [][C34_Step]_vars

\* a signal with levels that is still active just before signal_timeout, at a
\* price with a return of 0.4 %, while the other signal has been completed
C34_Witness ==
    /\ now = signal_timeout - 1
    /\ completed_signals # <<>>
    /\ \E i \in DOMAIN active_signals :
          /\ active_signals[i].stop_loss # None
          /\ active_signals[i].type = "BUY"
          /\ NoTrigger(active_signals[i], 1004)


----------------------------------------------------------------------------
(* C35: the levels the orchestrator attaches                                  *)

CompletedRecord(signals, id) == signals[CHOOSE j \in DOMAIN signals : signals[j].signal_id = id]

C35_Step ==
    \A price_data \in LiveTicks(LivePrices, MalformedLiveTicks), callback \in LiveCallbacks :
        (HandlePriceUpdate(price_data, callback) /\ price_data.price # None) =>
            \A i \in DOMAIN active_signals :
                LET signal == active_signals[i]
                    price == price_data.price[1]
                    at_stop == Truthy(signal.stop_loss) /\ price <= signal.stop_loss[1]
                    at_take == Truthy(signal.take_profit) /\ price >= signal.take_profit[1]
                IN /\ at_stop =>
                        CompletedRecord(completed_signals', signal.signal_id).outcome = "FAILURE"
                   /\ (~at_stop /\ at_take) =>
                        CompletedRecord(completed_signals', signal.signal_id).outcome = "SUCCESS"

\* C35: for every signal the orchestrator registers, BUY or SELL, a completion
\* triggered by the price reaching its stop-loss level ends with outcome
\* FAILURE and one triggered by the price reaching its take-profit level ends
\* with outcome SUCCESS
C35_LevelsFollowDirection == [][C35_Step]_vars

\* the same for BUY signals only
C35_BuyStep ==
    \A price_data \in LiveTicks(LivePrices, MalformedLiveTicks), callback \in LiveCallbacks :
        (HandlePriceUpdate(price_data, callback) /\ price_data.price # None) =>
            \A i \in DOMAIN active_signals :
                LET signal == active_signals[i]
                    price == price_data.price[1]
                    at_stop == Truthy(signal.stop_loss) /\ price <= signal.stop_loss[1]
                    at_take == Truthy(signal.take_profit) /\ price >= signal.take_profit[1]
                IN signal.type = "BUY" =>
                     /\ at_stop =>
                          CompletedRecord(completed_signals', signal.signal_id).outcome = "FAILURE"
                     /\ (~at_stop /\ at_take) =>
                          CompletedRecord(completed_signals', signal.signal_id).outcome = "SUCCESS"
C35_BuyLevels == [][C35_BuyStep]_vars


----------------------------------------------------------------------------
(* C36: confirmations in the orchestrator                                     *)

\* the row handle_price_update hands to generate_signals after the step
LatestData(price_data) ==
    [timestamp |-> price_data.timestamp,
     close |-> price_data.price[1],
     high |-> GetOr(price_data.high, price_data.price[1]),
     low |-> GetOr(price_data.low, price_data.price[1]),
     volume |-> price_data.volume[1],
     rsi |-> indicators'.rsi,
     macd |-> indicators'.macd,
     macd_signal |-> indicators'.macd_signal]

PassesOwnChecks(signal) ==
    /\ _check_strength(config, signal)
    /\ _check_indicator_allowed(config, signal)

RegisteredNow(signal) ==
    \E k \in DOMAIN active_signals' :
        /\ ~Has(active_signals, active_signals'[k].signal_id)
        /\ active_signals'[k].indicator = signal.indicator
        /\ active_signals'[k].type = signal.type

\* a signal of the same direction from another allowed indicator passed the
\* strength check at most 5 minutes ago: the filter stored its time when its
\* cooldown check passed, which comes after the strength check
ConfirmedEarlier(signal) ==
    \E key \in DOMAIN last_signal_time :
        /\ key[2] = signal.type
        /\ key[1] # signal.indicator
        /\ config.allowed_indicators # None => key[1] \in config.allowed_indicators[1]
        /\ signal.timestamp - last_signal_time[key] <= lookback_seconds

C36_Step ==
    \A price_data \in LiveTicks(LivePrices, MalformedLiveTicks), callback \in LiveCallbacks :
        (/\ HandlePriceUpdate(price_data, callback)
         /\ price_data.price # None
         /\ price_data.volume # None
         /\ Len(data_buffer') >= signal_min_rows
         /\ config.required_confirmations = 2) =>
            LET signals == generate_signals(LatestData(price_data))
            IN \A j \in DOMAIN signals :
                  (/\ PassesOwnChecks(signals[j])
                   /\ _check_cooldown(config, last_signal_time, signals[j]).ok
                   /\ \/ \E i \in 1..(j - 1) : /\ signals[i].type = signals[j].type
                                                /\ signals[i].indicator # signals[j].indicator
                                                /\ PassesOwnChecks(signals[i])
                      \/ ConfirmedEarlier(signals[j])) =>
                      RegisteredNow(signals[j])

\* C36: in the orchestrator, signals that pass the filter's strength and
\* allow-list checks are recorded in the filter's recent signals, so that with
\* required_confirmations = 2 a signal is accepted when a signal of the same
\* direction from a different indicator was generated on the same tick or
\* within the previous 5 minutes
C36_ConfirmedByOtherIndicator == [][C36_Step]_vars


\* the later case alone: the confirming signal came on an earlier tick
C36_LaterStep ==
    \A price_data \in LiveTicks(LivePrices, MalformedLiveTicks), callback \in LiveCallbacks :
        (/\ HandlePriceUpdate(price_data, callback)
         /\ price_data.price # None
         /\ price_data.volume # None
         /\ Len(data_buffer') >= signal_min_rows
         /\ config.required_confirmations = 2) =>
            LET signals == generate_signals(LatestData(price_data))
            IN \A j \in DOMAIN signals :
                  (/\ PassesOwnChecks(signals[j])
                   /\ _check_cooldown(config, last_signal_time, signals[j]).ok
                   /\ ConfirmedEarlier(signals[j])) =>
                      RegisteredNow(signals[j])
C36_ConfirmedByEarlierTick == [][C36_LaterStep]_vars


----------------------------------------------------------------------------
(* C37: where calculate_rsi gives the neutral value                           *)

\* the deltas of the period that ends at index i
PeriodAt(i) == LastN(Diff(SubSeq(technical_data, 1, i)), rsi_period)
FullPeriod(i) == i >= rsi_period + 1
LossAt(i) == SumSeq([k \in DOMAIN PeriodAt(i) |->
                        IF PeriodAt(i)[k] < 0 THEN -PeriodAt(i)[k] ELSE 0])
GainAt(i) == SumSeq([k \in DOMAIN PeriodAt(i) |->
                        IF PeriodAt(i)[k] > 0 THEN PeriodAt(i)[k] ELSE 0])

\* C37: calculate_rsi outputs the neutral value 50 at every index where the
\* average loss over the period is 0 or where there is not yet a full period
\* of history
C37_NeutralWhereNoLoss ==
    rsi_series # None =>
        \A i \in DOMAIN rsi_series[1] :
            (~FullPeriod(i) \/ LossAt(i) = 0) => REq(rsi_series[1][i], <<50, 1>>)

\* C37, amended: 50 where there is not yet a full period of history or where
\* the period has neither loss nor gain; 100 where it has gains and no loss
C37_NeutralWhereNoMove ==
    rsi_series # None =>
        \A i \in DOMAIN rsi_series[1] :
            /\ (~FullPeriod(i) \/ (LossAt(i) = 0 /\ GainAt(i) = 0)) =>
                   REq(rsi_series[1][i], <<50, 1>>)
            /\ (FullPeriod(i) /\ LossAt(i) = 0 /\ GainAt(i) > 0) =>
                   REq(rsi_series[1][i], <<100, 1>>)

\* a series whose first indexes lack a full period, with a later period that
\* has gains and no loss and a flat period
C37_Witness ==
    /\ rsi_series # None
    /\ \E i \in DOMAIN technical_data : FullPeriod(i) /\ LossAt(i) = 0 /\ GainAt(i) > 0
    /\ REq(rsi_series[1][1], <<50, 1>>)
    /\ REq(rsi_series[1][Len(technical_data)], <<100, 1>>)


----------------------------------------------------------------------------
(* C38: the analyzer's map and the tracker's active set                       *)

\* a handle_price_update call raised before it appended its row, which for a
\* well-formed tick is the ZeroDivisionError of a signal entered at price 0
RaisedOnZeroEntry ==
    /\ n_raised > 0
    /\ n_ticks > Len(appended)
    /\ \E i \in DOMAIN active_signals : active_signals[i].entry_price = 0

\* C38: after every call of handle_price_update, whether it returns or raises,
\* the analyzer's active_signals map holds exactly the ids of the tracker's
\* active set, and no id the tracker has completed stays in the map
C38_SameActiveIds ==
    /\ IdsOf(analyzer_active_signals) = IdsOf(active_signals)
    /\ IdsOf(analyzer_active_signals) \cap IdsOf(completed_signals) = {}

\* a call completed one signal, a later call raised on a signal entered at 0
C38_Witness ==
    /\ RaisedOnZeroEntry
    /\ completed_signals # <<>>
    /\ analyzer_active_signals # <<>>


----------------------------------------------------------------------------
(* C39: a tick that lacks a key                                               *)

Malformed(price_data) == price_data.price = None \/ price_data.volume = None

NoEffect == UNCHANGED <<data_buffer, active_signals, completed_signals,
                        analyzer_active_signals, config, last_signal_time,
                        recent_signals>>

C39_Step ==
    \A price_data \in LiveTicks(LivePrices, MalformedLiveTicks), callback \in LiveCallbacks :
        (Malformed(price_data) /\ HandlePriceUpdate(price_data, callback)) =>
            (n_raised' = n_raised + 1 /\ NoEffect)

\* C39: a tick without a volume or price field is propagated as an error to
\* the caller of handle_price_update and has no effect: the buffer, the
\* tracker's active and completed sets and the filter state are the same as
\* before the call
C39_MalformedTickHasNoEffect == [][C39_Step]_vars

C39_PriceStep ==
    \A price_data \in LiveTicks(LivePrices, MalformedLiveTicks), callback \in LiveCallbacks :
        (Malformed(price_data) /\ HandlePriceUpdate(price_data, callback)) =>
            /\ n_raised' = n_raised + 1
            /\ UNCHANGED <<data_buffer, config, last_signal_time, recent_signals>>
            /\ price_data.price = None => NoEffect

\* what does hold: the error is propagated, the buffer and the filter state
\* keep their values, and a tick without a price has no effect at all
C39_MissingPriceHasNoEffect == [][C39_PriceStep]_vars


----------------------------------------------------------------------------
(* C40: the indicators of the signals of the realtime path                    *)

RealtimeIndicators == {"RSI", "MACD"}

\* the indicators of the signals the tracker holds, the analyzer's map holds,
\* the filter accepted and the subscribers were called with
RegisteredIndicators ==
    {active_signals[i].indicator : i \in DOMAIN active_signals}
    \cup {completed_signals[i].indicator : i \in DOMAIN completed_signals}
    \cup {analyzer_active_signals[i].signal.indicator : i \in DOMAIN analyzer_active_signals}
    \cup {o[1] : o \in accepted}
DeliveredIndicators == {delivered[i].signal.indicator : i \in DOMAIN delivered}

\* C40: the snapshot handed to the signal generator has only the rsi, macd and
\* macd_signal indicator fields, so every signal the analyzer registers or
\* delivers has indicator RSI or MACD and no BB or STOCH signal is emitted,
\* although both are on the allow-list
C40_OnlyRsiAndMacd ==
    /\ DOMAIN indicators \subseteq {"rsi", "macd", "macd_signal"}
    /\ RegisteredIndicators \subseteq RealtimeIndicators
    /\ DeliveredIndicators \subseteq RealtimeIndicators

\* an RSI and a MACD signal were registered and delivered under the default
\* filter, which allows BB and STOCH
C40_Witness ==
    /\ config = AnalyzerConfig
    /\ {"BB", "STOCH"} \subseteq config.allowed_indicators[1]
    /\ RegisteredIndicators = RealtimeIndicators
    /\ DeliveredIndicators = RealtimeIndicators

====
